---- MODULE Spec2Model ----
(***************************************************************************)
(* Request scheduling and paged KV-cache admission of modelrunner          *)
(* (crates/runner-core: kv.rs, scheduler.rs, decode.rs; runner-backend).   *)
(*                                                                         *)
(* Concurrent callers run SchedulerV1::enqueue step by step (one step per  *)
(* access to shared state), the background task of SchedulerV1::start      *)
(* drains the queue on every tick and spawns one work unit per request.    *)
(* Machine words (usize) are WordBits wide; additions wrap (a build        *)
(* without overflow checks) or panic (a build with them).                  *)
(***************************************************************************)
EXTENDS Integers, Sequences, FiniteSets, TLC

\* ----------------------------------------------------------------- bounds
\* Width of usize in the model (64 in the code).
WordBits == 10
\* Number of clients that may call enqueue; each issues at most one call.
NumCallers == 4
\* Number of calls issued where the queue need not fill up.
NumCalls == 3

WordMod == 2 ^ WordBits
WordMax == WordMod - 1
Callers == 1..NumCallers

\* ------------------------------------------------------- program constants
TOKENS_PER_BLOCK == 32
BLOCK_BYTES == 4096
BYTES_PER_TOKEN == 4
PREFIX_BYTES == 256
PREFIX_DISCOUNT == 32
COMMON_MIN == 2
\* Configured byte budget: the 10-block pool of the KV test and of S1/S2.
CapacityBytes == 40960
\* Capacity and batch cap of the request queue, scaled down from 1024 and 32;
\* as in the code the queue holds more than one batch.
QUEUE_CAP == 3
BATCH_MAX == 2

\* Option<T>
None == <<>>
Some(x) == <<x>>
IsSome(o) == o /= None
Unwrap(o) == o[1]

\* ------------------------------------------------------------ usize words
Overflows(a, b) == a + b > WordMax
wrapping_add(a, b) == (a + b) % WordMod
wrapping_sub(a, b) == (a - b + WordMod) % WordMod
saturating_sub(a, b) == IF a >= b THEN a - b ELSE 0
Max(a, b) == IF a >= b THEN a ELSE b
Min(a, b) == IF a <= b THEN a ELSE b

\* ---------------------------------------------------------------- strings
\* A String is its sequence of bytes.
Repeat(b, n) == [i \in 1..n |-> b]
\* "SERVER_BUSY: insufficient KV capacity"
SERVER_BUSY ==
    << 83, 69, 82, 86, 69, 82, 95, 66, 85, 83, 89, 58, 32,
       105, 110, 115, 117, 102, 102, 105, 99, 105, 101, 110, 116, 32,
       75, 86, 32, 99, 97, 112, 97, 99, 105, 116, 121 >>
EmptyString == <<>>

\* The prompts callers submit: a 400-byte prompt (S1), a 4-byte prompt, a
\* 260-byte prompt whose two-byte character U+00E9 lies across byte offset 256,
\* a 10-byte prompt of two-, three- and four-byte characters, a 259-byte
\* prompt that agrees with the first on 256 bytes, a 260-byte prompt that
\* agrees with the third on 257 bytes, and a prompt of exactly 256 bytes.
Prompts == << Repeat(97, 400),
              <<97, 98, 99, 100>>,
              Repeat(97, 255) \o <<195, 169, 97, 98, 99>>,
              <<195, 169, 226, 130, 172, 240, 159, 152, 128, 97>>,
              Repeat(97, 256) \o <<98, 99, 100>>,
              Repeat(97, 255) \o <<195, 169, 120, 121, 122>>,
              Repeat(97, 256) >>
PromptIds == 1..Len(Prompts)

\* The (prompt, max_tokens) pairs callers submit. With the 400-byte prompt
\* (100 estimated tokens), max_tokens 28 and 60 ask for 4 and 5 blocks, or 3 and
\* 4 once the prefix is common, and WordMax - 130 makes tokens + 32 exceed the
\* word.
Inputs == { <<1, 28>>, <<1, 60>>, <<1, WordMax - 130>>, <<2, 60>> }

\* ------------------------------------------------------------ PagedKvManager
\* Mutant: the byte budget taken as the block count.
capacity_blocks_undivided == CapacityBytes
\* PagedKvManager::new
capacity_blocks == CapacityBytes \div BLOCK_BYTES

\* (tokens + TOKENS_PER_BLOCK - 1) / TOKENS_PER_BLOCK, evaluated left to right.
tokens_to_blocks(tokens) ==
    wrapping_sub(wrapping_add(tokens, TOKENS_PER_BLOCK), 1) \div TOKENS_PER_BLOCK
tokens_to_blocks_overflows(tokens) == Overflows(tokens, TOKENS_PER_BLOCK)

\* ---------------------------------------------------------------- PrefixCache
HashMod == 65536
\* Stand-in for DefaultHasher (SipHash with fixed keys): a deterministic
\* function of the hashed bytes, here their position-weighted sum, summed by
\* halves.
RECURSIVE HashRange(_, _, _)
HashRange(bytes, lo, hi) ==
    IF lo > hi THEN 0
    ELSE IF lo = hi THEN (lo * (bytes[lo] + 1)) % HashMod
    ELSE LET mid == (lo + hi) \div 2
         IN  (HashRange(bytes, lo, mid) + HashRange(bytes, mid + 1, hi)) % HashMod
DefaultHasher(bytes) == (HashRange(bytes, 1, Len(bytes)) + Len(bytes)) % HashMod

hash_prefix(text) ==
    LET slice == IF Len(text) > PREFIX_BYTES THEN SubSeq(text, 1, PREFIX_BYTES) ELSE text
    IN  DefaultHasher(slice)

\* &text[..256] panics unless offset 256 is a character boundary: the end of
\* the text or a byte that is not a continuation byte.
hash_prefix_panics(text) ==
    /\ Len(text) > PREFIX_BYTES
    /\ text[PREFIX_BYTES + 1] >= 128 /\ text[PREFIX_BYTES + 1] <= 191

PromptHash == [p \in PromptIds |-> hash_prefix(Prompts[p])]
Hashes == {PromptHash[p] : p \in PromptIds}

\* Mutant: note inserts 1 instead of incrementing the entry.
note_inserts_one(cnt, h) == [cnt EXCEPT ![h] = 1]
\* counts.get(&h).copied().unwrap_or(0): absent keys are kept as 0.
note(cnt, h) == [cnt EXCEPT ![h] = @ + 1]
is_common(cnt, h) == cnt[h] >= COMMON_MIN


\* ------------------------------------------------------------------ backend
\* Result<T>
Ok(v) == <<"Ok", v>>
Err == <<"Err">>
IsOk(r) == r[1] = "Ok"

IsCont(b) == b >= 128 /\ b <= 191
\* Length of the UTF-8 sequence a lead byte announces (0: not a lead byte).
Utf8Width(b) ==
    IF b < 128 THEN 1
    ELSE IF b >= 194 /\ b <= 223 THEN 2
    ELSE IF b >= 224 /\ b <= 239 THEN 3
    ELSE IF b >= 240 /\ b <= 244 THEN 4
    ELSE 0
\* Whether b2 may follow lead byte b1.
SecondOk(b1, b2) ==
    IF b1 = 224 THEN b2 >= 160 /\ b2 <= 191
    ELSE IF b1 = 237 THEN b2 >= 128 /\ b2 <= 159
    ELSE IF b1 = 240 THEN b2 >= 144 /\ b2 <= 191
    ELSE IF b1 = 244 THEN b2 >= 128 /\ b2 <= 143
    ELSE IsCont(b2)
\* Number of bytes from position i that form a valid prefix of one sequence,
\* and whether the sequence is complete.
Utf8Step(bytes, i) ==
    LET n == Len(bytes)
        w == Utf8Width(bytes[i])
        ok2 == i + 1 <= n /\ SecondOk(bytes[i], bytes[i + 1])
        ok3 == i + 2 <= n /\ IsCont(bytes[i + 2])
        ok4 == i + 3 <= n /\ IsCont(bytes[i + 3])
    IN  IF w = 0 THEN [len |-> 1, valid |-> FALSE]
        ELSE IF w = 1 THEN [len |-> 1, valid |-> TRUE]
        ELSE IF ~ok2 THEN [len |-> 1, valid |-> FALSE]
        ELSE IF w = 2 THEN [len |-> 2, valid |-> TRUE]
        ELSE IF ~ok3 THEN [len |-> 2, valid |-> FALSE]
        ELSE IF w = 3 THEN [len |-> 3, valid |-> TRUE]
        ELSE IF ~ok4 THEN [len |-> 3, valid |-> FALSE]
        ELSE [len |-> 4, valid |-> TRUE]
\* U+FFFD REPLACEMENT CHARACTER
REPLACEMENT == <<239, 191, 189>>
\* Position of the first non-ASCII byte at or after i (Len + 1: none).
NextNonAscii(bytes, i) ==
    LET S == {k \in i..Len(bytes) : bytes[k] >= 128}
    IN  IF S = {} THEN Len(bytes) + 1 ELSE CHOOSE k \in S : \A j \in S : k <= j
\* Valid sequences are kept; each maximal invalid prefix of a sequence becomes
\* one U+FFFD. Runs of ASCII are copied whole.
RECURSIVE LossyFrom(_, _, _)
LossyFrom(bytes, i, acc) ==
    LET j == NextNonAscii(bytes, i)
        kept == acc \o SubSeq(bytes, i, j - 1)
    IN  IF j > Len(bytes) THEN kept
        ELSE LET st == Utf8Step(bytes, j)
             IN  LossyFrom(bytes, j + st.len,
                           IF st.valid THEN kept \o SubSeq(bytes, j, j + st.len - 1)
                           ELSE kept \o REPLACEMENT)
from_utf8_lossy(bytes) == LossyFrom(bytes, 1, <<>>)

\* The backend handed to SchedulerV1::start: the mock backend, or a backend
\* whose tokenize or detokenize fails.
Backends == {"mock", "tokenize_fails", "detokenize_fails"}

\* text.as_bytes().iter().map(|b| *b as u32)
tokenize(b, text) == IF b = "tokenize_fails" THEN Err ELSE Ok(text)
\* Mutant: the token ids are narrowed to seven bits.
detokenize_seven_bits(b, tokens) ==
    IF b = "detokenize_fails" THEN Err
    ELSE Ok(from_utf8_lossy([i \in 1..Len(tokens) |-> tokens[i] % 128]))

\* tokens.iter().map(|t| *t as u8), then String::from_utf8_lossy
detokenize(b, tokens) ==
    IF b = "detokenize_fails" THEN Err
    ELSE Ok(from_utf8_lossy([i \in 1..Len(tokens) |-> tokens[i] % 256]))

\* decode::generate_once; the sampler call on [0.0] returns 0 and is discarded.
generate_once(b, text, max) ==
    LET t == tokenize(b, text)
        tokens == IF IsOk(t) THEN t[2] ELSE <<>>
        d == detokenize(b, tokens)
    IN  Ok(IF IsOk(d) THEN d[2] ELSE text)

\* generate_once on every prompt of the model, computed once.
Generated ==
    [b \in Backends |-> [p \in PromptIds |-> generate_once(b, Prompts[p], 0)]]

\* ------------------------------------------------------------------ sampler
\* f32 values are modelled as exact numbers: a logit is a multiple of ln 2 (its
\* value here is the multiplier), so that exp is a power of two, or NaN; a
\* probability is a weight over the sum of the weights; top_p and the random
\* draw are fractions num / TopPDen and num / RDen.
NaN == -1
MaxLogits == 2
TopPDen == 4
RDen == 8
LogitValues == {0, 2, 4, NaN}
Logits == UNION { [1..n -> LogitValues] : n \in 0..MaxLogits }
TopKs == 0..MaxLogits
TopPs == {1, TopPDen \div 2, TopPDen}
Temperatures == {1, 2}
Seeds == {None, Some(1), Some(2), Some(42)}
SampleArgs ==
    [logits : Logits, top_k : TopKs, top_p : TopPs, temperature : Temperatures,
     seed : Seeds]

\* Stand-in for StdRng::seed_from_u64(s).gen::<f32>(): a deterministic function
\* of the seed, in [0, 1).
seed_from_u64(s) == (5 * s + 1) % RDen
\* Mutant: the generator is seeded from entropy whatever the seed.
rng_from_entropy(seed) == 0..(RDen - 1)
\* The values rng.gen() may draw: one for a given seed, any from entropy.
rng(seed) == IF IsSome(seed) THEN { seed_from_u64(Unwrap(seed)) } ELSE 0..(RDen - 1)

Returned(i) == <<"return", i>>
Panicked == <<"panic">>

\* l / temperature.max(1e-4); the temperatures of the model exceed 1e-4 and
\* divide the logits.
Scaled(l, temperature) == IF l = NaN THEN NaN ELSE l \div temperature
\* (l).exp()
Exp(l) == 2 ^ l
\* partial_cmp(..).unwrap() panics when a NaN is compared; a slice of two or
\* more elements has every element compared.
sort_panics(seq) == Len(seq) >= 2 /\ \E n \in 1..Len(seq) : seq[n][2] = NaN
\* Position of seq[j] after the stable sort by descending second component.
Rank(seq, j) ==
    Cardinality({ k \in 1..Len(seq) :
                    \/ seq[k][2] > seq[j][2]
                    \/ seq[k][2] = seq[j][2] /\ k < j }) + 1
\* sort_by(|a, b| b.1.partial_cmp(&a.1).unwrap())
sort_desc(seq) ==
    [n \in 1..Len(seq) |-> seq[CHOOSE j \in 1..Len(seq) : Rank(seq, j) = n]]
RECURSIVE Weight(_, _)
\* Sum of the second components of seq[1..k].
Weight(seq, k) == IF k = 0 THEN 0 ELSE Weight(seq, k - 1) + seq[k][2]

\* sample_top_k_top_p with the random draw r / RDen.
sample_top_k_top_p(a, r) ==
    IF a.logits = <<>> THEN Returned(0)
    ELSE
    LET n == Len(a.logits)
        unsorted == [i \in 1..n |-> <<i - 1, Scaled(a.logits[i], a.temperature)>>]
    IN  IF sort_panics(unsorted) THEN Panicked
        ELSE
        LET pairs == sort_desc(unsorted)
            cutoff == IF a.top_k > 0 THEN Min(n, a.top_k) ELSE n
        IN  \* a single NaN logit: every comparison with NaN is false
            IF pairs[1][2] = NaN THEN Returned(pairs[1][1])
            ELSE
            LET probs == [m \in 1..cutoff |-> <<pairs[m][1], Exp(pairs[m][2])>>]
                sum == Weight(probs, cutoff)
                sorted == sort_desc(probs)
                reach == { k \in 1..cutoff :
                             Weight(sorted, k) * TopPDen >= a.top_p * sum }
                keep == IF reach = {} THEN cutoff
                        ELSE CHOOSE k \in reach : \A j \in reach : k <= j
                kept == IF a.top_p < TopPDen THEN SubSeq(sorted, 1, keep) ELSE probs
                z == Weight(kept, Len(kept))
                hit == { m \in 1..Len(kept) : r * z <= RDen * Weight(kept, m) }
            IN  IF hit = {} THEN Returned(pairs[1][1])
                ELSE Returned(kept[CHOOSE m \in hit : \A j \in hit : m <= j][1])

VARIABLES
    used_blocks,      \* PagedKvManager.used_blocks
    free_list,        \* PagedKvManager.free_list
    counts,           \* PrefixCache.counts
    queue,            \* the mpsc channel of Requests
    batch,            \* the tick loop's batch
    tick_pc,          \* position of the tick loop
    queue_depth,      \* Handle.queue_depth
    last_batch_size,  \* Handle.last_batch_size
    units,            \* the spawned per-request work units
    pc,               \* position of each caller in enqueue
    prompt,           \* enqueue's prompt argument (an index into Prompts)
    max_tokens,       \* enqueue's max_tokens argument
    total_tokens,     \* enqueue's local total_tokens
    predicted_blocks, \* enqueue's local predicted_blocks
    used,             \* try_reserve's local used
    reservation,      \* enqueue's local reservation
    chan,             \* the one-shot reply channel of each call
    result,           \* the string enqueue returned
    backend,          \* the backend handed to SchedulerV1::start
    workload,         \* the (prompt, max_tokens) pairs callers submit
    calls,            \* the number of calls of enqueue the clients issue
    sampler           \* two invocations of sample_top_k_top_p

vars == << used_blocks, free_list, counts, queue, batch, tick_pc, queue_depth,
           last_batch_size, units, pc, prompt, max_tokens, total_tokens,
           predicted_blocks, used, reservation, chan, result, backend, workload,
           calls, sampler >>

kvVars == << used_blocks, free_list >>
envVars == << backend, workload, calls, sampler >>
tickVars == << batch, tick_pc, queue_depth, last_batch_size >>
argVars == << prompt, max_tokens >>

NoChan == [state |-> "none", value |-> EmptyString, resolutions |-> 0]
NoUnit == [pc |-> "none", prompt |-> 0, max_tokens |-> 0, reservation |-> None]

\* No invocation of the sampler has been made.
NoSampler == [args |-> None, out |-> << None, None >>]

\* SchedulerV1::start on backend b; the clients issue n calls drawn from w.
InitFor(b, w, n) ==
    /\ backend = b
    /\ workload = w
    /\ calls = n
    /\ sampler = NoSampler
    /\ used_blocks = 0
    /\ free_list = <<>>
    /\ counts = [h \in Hashes |-> 0]
    /\ queue = <<>>
    /\ batch = <<>>
    /\ tick_pc = "tick"
    /\ queue_depth = 0
    /\ last_batch_size = 0
    /\ units = [c \in Callers |-> NoUnit]
    /\ pc = [c \in Callers |-> "idle"]
    /\ prompt = [c \in Callers |-> 0]
    /\ max_tokens = [c \in Callers |-> 0]
    /\ total_tokens = [c \in Callers |-> 0]
    /\ predicted_blocks = [c \in Callers |-> 0]
    /\ used = [c \in Callers |-> 0]
    /\ reservation = [c \in Callers |-> None]
    /\ chan = [c \in Callers |-> NoChan]
    /\ result = [c \in Callers |-> EmptyString]

InitWith(b, w) == InitFor(b, w, NumCalls)

\* The calls issued.
Active == 1..calls

\* The scheduler runs on the mock backend; callers submit any of Inputs.
Init == InitWith("mock", Inputs)

\* ------------------------------------------------ PagedKvManager::release
\* Mutant: the release subtracts the blocks twice.
release_twice(blocks) ==
    /\ used_blocks' = wrapping_sub(wrapping_sub(used_blocks, blocks), blocks)
    /\ free_list' = Append(free_list, blocks)

\* PagedKvManager::release
release(blocks) ==
    /\ used_blocks' = wrapping_sub(used_blocks, blocks)
    /\ free_list' = Append(free_list, blocks)

\* ------------------------------------------------------ SchedulerV1::enqueue
est_prompt_tokens(p) == Max(1, Len(Prompts[p]) \div BYTES_PER_TOKEN)

\* enqueue is called: est_prompt_tokens, hash_prefix and note.
EnqueueNote(c, p, m) ==
    /\ pc[c] = "idle"
    /\ c \in Active
    \* callers are numbered in the order of their calls
    /\ \A d \in Callers : d < c => pc[d] /= "idle"
    /\ prompt' = [prompt EXCEPT ![c] = p]
    /\ max_tokens' = [max_tokens EXCEPT ![c] = m]
    /\ IF hash_prefix_panics(Prompts[p])
       THEN /\ pc' = [pc EXCEPT ![c] = "panicked"]
            /\ UNCHANGED counts
       ELSE /\ pc' = [pc EXCEPT ![c] = "is_common"]
            /\ counts' = note(counts, PromptHash[p])
    /\ UNCHANGED << kvVars, queue, tickVars, units, total_tokens,
                    predicted_blocks, used, reservation, chan, result, envVars >>

\* total_tokens as enqueue computes it once is_common has answered.
TotalTokens(p, m, common) ==
    LET sum == wrapping_add(est_prompt_tokens(p), m)
    IN  IF common THEN saturating_sub(sum, PREFIX_DISCOUNT) ELSE sum

\* Whether one of enqueue's additions exceeds the word.
EnqueueOverflows(p, m, common) ==
    \/ Overflows(est_prompt_tokens(p), m)
    \/ tokens_to_blocks_overflows(TotalTokens(p, m, common))

\* total_tokens, the is_common discount and predicted_blocks.
EnqueuePredict(c) ==
    /\ pc[c] = "is_common"
    /\ LET total == TotalTokens(prompt[c], max_tokens[c],
                                is_common(counts, PromptHash[prompt[c]]))
       IN  /\ total_tokens' = [total_tokens EXCEPT ![c] = total]
           /\ predicted_blocks' = [predicted_blocks EXCEPT ![c] = tokens_to_blocks(total)]
    /\ pc' = [pc EXCEPT ![c] = "load"]
    /\ UNCHANGED << kvVars, counts, queue, tickVars, units, argVars,
                    used, reservation, chan, result, envVars >>

\* A build with overflow checks panics where an addition exceeds the word.
EnqueuePanic(c) ==
    /\ IF pc[c] = "is_common"
       THEN EnqueueOverflows(prompt[c], max_tokens[c],
                             is_common(counts, PromptHash[prompt[c]]))
       ELSE pc[c] = "load" /\ Overflows(used_blocks, predicted_blocks[c])
    /\ pc' = [pc EXCEPT ![c] = "panicked"]
    /\ UNCHANGED << kvVars, counts, queue, tickVars, units, argVars, total_tokens,
                    predicted_blocks, used, reservation, chan, result, envVars >>

\* Mutant: the capacity test is >= instead of >.
TryReserveLoadOffByOne(c) ==
    /\ pc[c] = "load"
    /\ IF wrapping_add(used_blocks, predicted_blocks[c]) >= capacity_blocks
       THEN /\ pc' = [pc EXCEPT ![c] = "done"]
            /\ result' = [result EXCEPT ![c] = SERVER_BUSY]
       ELSE /\ pc' = [pc EXCEPT ![c] = "cas"]
            /\ UNCHANGED result
    /\ used' = [used EXCEPT ![c] = used_blocks]
    /\ UNCHANGED << kvVars, counts, queue, tickVars, units, argVars, total_tokens,
                    predicted_blocks, reservation, chan, envVars >>

\* Mutant: the return on None is missing, the request is sent without a
\* reservation.
TryReserveLoadNoReturn(c) ==
    /\ pc[c] = "load"
    /\ IF wrapping_add(used_blocks, predicted_blocks[c]) > capacity_blocks
       THEN /\ pc' = [pc EXCEPT ![c] = "send"]
            /\ chan' = [chan EXCEPT ![c].state = "open"]
       ELSE /\ pc' = [pc EXCEPT ![c] = "cas"]
            /\ UNCHANGED chan
    /\ used' = [used EXCEPT ![c] = used_blocks]
    /\ UNCHANGED << kvVars, counts, queue, tickVars, units, argVars, total_tokens,
                    predicted_blocks, reservation, result, envVars >>

\* Mutant: a request for no block is refused.
TryReserveLoadRefusesZero(c) ==
    /\ pc[c] = "load"
    /\ IF \/ predicted_blocks[c] = 0
          \/ wrapping_add(used_blocks, predicted_blocks[c]) > capacity_blocks
       THEN /\ pc' = [pc EXCEPT ![c] = "done"]
            /\ result' = [result EXCEPT ![c] = SERVER_BUSY]
       ELSE /\ pc' = [pc EXCEPT ![c] = "cas"]
            /\ UNCHANGED result
    /\ used' = [used EXCEPT ![c] = used_blocks]
    /\ UNCHANGED << kvVars, counts, queue, tickVars, units, argVars, total_tokens,
                    predicted_blocks, reservation, chan, envVars >>

\* Mutant: fetch_add before the capacity test; a denied call leaves its blocks
\* added.
TryReserveLoadFetchAdd(c) ==
    /\ pc[c] = "load"
    /\ IF wrapping_add(used_blocks, predicted_blocks[c]) > capacity_blocks
       THEN /\ pc' = [pc EXCEPT ![c] = "done"]
            /\ result' = [result EXCEPT ![c] = SERVER_BUSY]
            /\ used_blocks' = wrapping_add(used_blocks, predicted_blocks[c])
       ELSE /\ pc' = [pc EXCEPT ![c] = "cas"]
            /\ UNCHANGED << result, used_blocks >>
    /\ used' = [used EXCEPT ![c] = used_blocks]
    /\ UNCHANGED << free_list, counts, queue, tickVars, units, argVars, total_tokens,
                    predicted_blocks, reservation, chan, envVars >>

\* Mutant: a denied call takes its blocks back out of used_blocks although it
\* never added them.
TryReserveLoadRollsBack(c) ==
    /\ pc[c] = "load"
    /\ IF wrapping_add(used_blocks, predicted_blocks[c]) > capacity_blocks
       THEN /\ pc' = [pc EXCEPT ![c] = "done"]
            /\ result' = [result EXCEPT ![c] = SERVER_BUSY]
            /\ used_blocks' = saturating_sub(used_blocks, predicted_blocks[c])
       ELSE /\ pc' = [pc EXCEPT ![c] = "cas"]
            /\ UNCHANGED << result, used_blocks >>
    /\ used' = [used EXCEPT ![c] = used_blocks]
    /\ UNCHANGED << free_list, counts, queue, tickVars, units, argVars, total_tokens,
                    predicted_blocks, reservation, chan, envVars >>

\* try_reserve: the load into the local used and the capacity test; on None
\* enqueue returns SERVER_BUSY.
TryReserveLoad(c) ==
    /\ pc[c] = "load"
    /\ IF wrapping_add(used_blocks, predicted_blocks[c]) > capacity_blocks
       THEN /\ pc' = [pc EXCEPT ![c] = "done"]
            /\ result' = [result EXCEPT ![c] = SERVER_BUSY]
       ELSE /\ pc' = [pc EXCEPT ![c] = "cas"]
            /\ UNCHANGED result
    /\ used' = [used EXCEPT ![c] = used_blocks]
    /\ UNCHANGED << kvVars, counts, queue, tickVars, units, argVars, total_tokens,
                    predicted_blocks, reservation, chan, envVars >>

\* Mutant: fetch_add in place of compare_exchange.
TryReserveCasFetchAdd(c) ==
    /\ pc[c] = "cas"
    /\ used_blocks' = wrapping_add(used_blocks, predicted_blocks[c])
    /\ reservation' = [reservation EXCEPT ![c] = Some(predicted_blocks[c])]
    /\ chan' = [chan EXCEPT ![c].state = "open"]
    /\ pc' = [pc EXCEPT ![c] = "send"]
    /\ used' = [used EXCEPT ![c] = 0]
    /\ UNCHANGED << free_list, counts, queue, tickVars, units, argVars, total_tokens,
                    predicted_blocks, result, envVars >>

\* Mutant: a plain store of used + blocks in place of compare_exchange.
TryReserveCasStore(c) ==
    /\ pc[c] = "cas"
    /\ used_blocks' = wrapping_add(used[c], predicted_blocks[c])
    /\ reservation' = [reservation EXCEPT ![c] = Some(predicted_blocks[c])]
    /\ chan' = [chan EXCEPT ![c].state = "open"]
    /\ pc' = [pc EXCEPT ![c] = "send"]
    /\ used' = [used EXCEPT ![c] = 0]
    /\ UNCHANGED << free_list, counts, queue, tickVars, units, argVars, total_tokens,
                    predicted_blocks, result, envVars >>

\* Mutant: compare_exchange_weak, which may fail although used_blocks is
\* unchanged.
TryReserveCasWeak(c) ==
    /\ pc[c] = "cas"
    /\ \/ /\ used_blocks = used[c]
          /\ used_blocks' = wrapping_add(used[c], predicted_blocks[c])
          /\ reservation' = [reservation EXCEPT ![c] = Some(predicted_blocks[c])]
          /\ chan' = [chan EXCEPT ![c].state = "open"]
          /\ pc' = [pc EXCEPT ![c] = "send"]
       \/ /\ pc' = [pc EXCEPT ![c] = "load"]
          /\ UNCHANGED << used_blocks, reservation, chan >>
    /\ used' = [used EXCEPT ![c] = 0]
    /\ UNCHANGED << free_list, counts, queue, tickVars, units, argVars, total_tokens,
                    predicted_blocks, result, envVars >>

\* try_reserve: the compare_exchange; on success enqueue holds the Reservation
\* and creates the one-shot channel, on failure the loop repeats.
TryReserveCas(c) ==
    /\ pc[c] = "cas"
    /\ IF used_blocks = used[c]
       THEN /\ used_blocks' = wrapping_add(used[c], predicted_blocks[c])
            /\ reservation' = [reservation EXCEPT ![c] = Some(predicted_blocks[c])]
            /\ chan' = [chan EXCEPT ![c].state = "open"]
            /\ pc' = [pc EXCEPT ![c] = "send"]
       ELSE /\ pc' = [pc EXCEPT ![c] = "load"]
            /\ UNCHANGED << used_blocks, reservation, chan >>
    \* the local used is dead after the compare_exchange
    /\ used' = [used EXCEPT ![c] = 0]
    /\ UNCHANGED << free_list, counts, queue, tickVars, units, argVars, total_tokens,
                    predicted_blocks, result, envVars >>

\* Mutant: enqueue runs the request itself instead of queueing it.
EnqueueSendSpawns(c) ==
    /\ pc[c] = "send"
    /\ units' = [units EXCEPT ![c] =
                   [pc |-> "generate", prompt |-> prompt[c],
                    max_tokens |-> max_tokens[c], reservation |-> reservation[c]]]
    /\ reservation' = [reservation EXCEPT ![c] = None]
    /\ pc' = [pc EXCEPT ![c] = "await"]
    /\ UNCHANGED << kvVars, counts, queue, tickVars, argVars, total_tokens,
                    predicted_blocks, used, chan, result, envVars >>

\* Mutant: a request that cannot be sent is forgotten with its reservation.
EnqueueSendLeaksOnError(c) ==
    /\ pc[c] = "send"
    /\ IF tick_pc = "gone"
       THEN /\ chan' = [chan EXCEPT ![c].state = "closed"]
            /\ UNCHANGED queue
       ELSE /\ Len(queue) < QUEUE_CAP
            /\ queue' = Append(queue, [prompt |-> prompt[c], respond |-> c,
                                       max_tokens |-> max_tokens[c],
                                       reservation |-> reservation[c]])
            /\ UNCHANGED chan
    /\ reservation' = [reservation EXCEPT ![c] = None]
    /\ pc' = [pc EXCEPT ![c] = "await"]
    /\ UNCHANGED << kvVars, counts, tickVars, units, argVars, total_tokens,
                    predicted_blocks, used, result, envVars >>

\* Mutant: try_send in place of send: a request arriving at a full queue is
\* dropped with its reply sender and its reservation.
EnqueueSendTries(c) ==
    /\ pc[c] = "send"
    /\ IF tick_pc = "gone" \/ Len(queue) >= QUEUE_CAP
       THEN /\ chan' = [chan EXCEPT ![c].state = "closed"]
            /\ IF IsSome(reservation[c])
               THEN release(Unwrap(reservation[c]))
               ELSE UNCHANGED kvVars
            /\ UNCHANGED queue
       ELSE /\ queue' = Append(queue, [prompt |-> prompt[c], respond |-> c,
                                       max_tokens |-> max_tokens[c],
                                       reservation |-> reservation[c]])
            /\ UNCHANGED << kvVars, chan >>
    /\ reservation' = [reservation EXCEPT ![c] = None]
    /\ pc' = [pc EXCEPT ![c] = "await"]
    /\ UNCHANGED << counts, tickVars, units, argVars, total_tokens,
                    predicted_blocks, used, result, envVars >>

\* let _ = handle.tx.send(Request {..}).await: waits while the queue is full.
\* When the receiver is gone the send fails and the error, which holds the
\* Request, is dropped: the reply sender is dropped and the reservation
\* released.
EnqueueSend(c) ==
    /\ pc[c] = "send"
    /\ IF tick_pc = "gone"
       THEN /\ chan' = [chan EXCEPT ![c].state = "closed"]
            /\ IF IsSome(reservation[c])
               THEN release(Unwrap(reservation[c]))
               ELSE UNCHANGED kvVars
            /\ UNCHANGED queue
       ELSE /\ Len(queue) < QUEUE_CAP
            /\ queue' = Append(queue, [prompt |-> prompt[c], respond |-> c,
                                       max_tokens |-> max_tokens[c],
                                       reservation |-> reservation[c]])
            /\ UNCHANGED << kvVars, chan >>
    /\ reservation' = [reservation EXCEPT ![c] = None]
    /\ pc' = [pc EXCEPT ![c] = "await"]
    /\ UNCHANGED << counts, tickVars, units, argVars, total_tokens,
                    predicted_blocks, used, result, envVars >>

\* rx.await.unwrap_or_default()
EnqueueReturn(c) ==
    /\ pc[c] = "await"
    /\ chan[c].state \in {"sent", "closed"}
    /\ result' = [result EXCEPT ![c] =
                    IF chan[c].state = "sent" THEN chan[c].value ELSE EmptyString]
    /\ chan' = [chan EXCEPT ![c].state = "received"]
    /\ pc' = [pc EXCEPT ![c] = "done"]
    /\ UNCHANGED << kvVars, counts, queue, tickVars, units, argVars, total_tokens,
                    predicted_blocks, used, reservation, envVars >>

\* The caller gives up while enqueue waits in rx.await: the future is dropped
\* and with it the receiver of the reply channel (and a reply not yet taken).
Abandon(c) ==
    /\ pc[c] = "await"
    /\ chan[c].state \in {"open", "sent"}
    /\ chan' = [chan EXCEPT ![c].state = "dropped", ![c].value = EmptyString]
    /\ pc' = [pc EXCEPT ![c] = "abandoned"]
    /\ UNCHANGED << kvVars, counts, queue, tickVars, units, argVars, total_tokens,
                    predicted_blocks, used, reservation, result, envVars >>

\* Mutant: the request of a cancelled send is forgotten with its reservation.
CancelSendLeaks(c) ==
    /\ pc[c] = "send"
    /\ tick_pc /= "gone" /\ Len(queue) >= QUEUE_CAP
    /\ reservation' = [reservation EXCEPT ![c] = None]
    /\ chan' = [chan EXCEPT ![c].state = "dropped"]
    /\ pc' = [pc EXCEPT ![c] = "abandoned"]
    /\ UNCHANGED << kvVars, counts, queue, tickVars, units, argVars, total_tokens,
                    predicted_blocks, used, result, envVars >>

\* The caller is cancelled while tx.send(..).await is suspended on the full
\* queue: the future of enqueue is dropped, and with it the send future that
\* owns the unsent Request (its reply sender and its reservation, which is
\* released) and the reply receiver.
CancelSend(c) ==
    /\ pc[c] = "send"
    /\ tick_pc /= "gone" /\ Len(queue) >= QUEUE_CAP
    /\ IF IsSome(reservation[c])
       THEN release(Unwrap(reservation[c]))
       ELSE UNCHANGED kvVars
    /\ reservation' = [reservation EXCEPT ![c] = None]
    /\ chan' = [chan EXCEPT ![c].state = "dropped"]
    /\ pc' = [pc EXCEPT ![c] = "abandoned"]
    /\ UNCHANGED << counts, queue, tickVars, units, argVars, total_tokens,
                    predicted_blocks, used, result, envVars >>

\* -------------------------------------------------- SchedulerV1::start: tick
\* Mutant: the drain takes the newest requests of the queue.
DrainNewest(q) == SubSeq(q, Len(q) - Min(Len(q), BATCH_MAX) + 1, Len(q))
\* Mutant: the drain has no cap, it empties the queue.
DrainAll(q) == q
\* while let Ok(req) = rx.try_recv() { batch.push(req); if batch.len() >= 32 { break; } }
Drain(q) == SubSeq(q, 1, Min(Len(q), BATCH_MAX))

\* Mutant: the tick loop drains only while the pool has a free block.
TickDrainWaitsForCapacity ==
    /\ tick_pc = "tick"
    /\ used_blocks < capacity_blocks
    /\ batch' = Drain(queue)
    /\ queue' = SubSeq(queue, Len(Drain(queue)) + 1, Len(queue))
    /\ tick_pc' = "store"
    /\ UNCHANGED << kvVars, counts, queue_depth, last_batch_size, units, pc, argVars,
                    total_tokens, predicted_blocks, used, reservation, chan, result,
                    envVars >>

\* ticker.tick().await, then the drain of at most 32 requests into the batch.
TickDrain ==
    /\ tick_pc = "tick"
    /\ batch' = Drain(queue)
    /\ queue' = SubSeq(queue, Len(Drain(queue)) + 1, Len(queue))
    /\ tick_pc' = "store"
    /\ UNCHANGED << kvVars, counts, queue_depth, last_batch_size, units, pc, argVars,
                    total_tokens, predicted_blocks, used, reservation, chan, result,
                    envVars >>

\* Mutant: the reservation is not moved into the work unit.
SpawnedWithoutReservation(req) ==
    [pc |-> "generate", prompt |-> req.prompt, max_tokens |-> req.max_tokens,
     reservation |-> None]

\* The work unit spawned for a request.
Spawned(req) ==
    [pc |-> "generate", prompt |-> req.prompt, max_tokens |-> req.max_tokens,
     reservation |-> req.reservation]

\* Mutant: only the first request of the batch gets a work unit.
TickDispatchFirstOnly ==
    /\ tick_pc = "store"
    /\ queue_depth' = Len(queue)
    /\ IF batch = <<>>
       THEN UNCHANGED << last_batch_size, units >>
       ELSE /\ last_batch_size' = Len(batch)
            /\ units' = [units EXCEPT ![batch[1].respond] = Spawned(batch[1])]
    /\ batch' = <<>>
    /\ tick_pc' = "tick"
    /\ UNCHANGED << kvVars, counts, queue, pc, argVars, total_tokens,
                    predicted_blocks, used, reservation, chan, result, envVars >>

\* Mutant: the queue length is read before the drain.
TickDispatchStoresBeforeDrain ==
    /\ tick_pc = "store"
    /\ queue_depth' = Len(queue) + Len(batch)
    /\ IF batch = <<>>
       THEN UNCHANGED << last_batch_size, units >>
       ELSE /\ last_batch_size' = Len(batch)
            /\ units' = [c \in Callers |->
                          IF \E i \in 1..Len(batch) : batch[i].respond = c
                          THEN Spawned(batch[CHOOSE i \in 1..Len(batch) :
                                               batch[i].respond = c])
                          ELSE units[c]]
    /\ batch' = <<>>
    /\ tick_pc' = "tick"
    /\ UNCHANGED << kvVars, counts, queue, pc, argVars, total_tokens,
                    predicted_blocks, used, reservation, chan, result, envVars >>

\* Mutant: the batch size is stored before the test for an empty batch.
TickDispatchStoresEmpty ==
    /\ tick_pc = "store"
    /\ queue_depth' = Len(queue)
    /\ last_batch_size' = Len(batch)
    /\ IF batch = <<>>
       THEN UNCHANGED units
       ELSE units' = [c \in Callers |->
                       IF \E i \in 1..Len(batch) : batch[i].respond = c
                       THEN Spawned(batch[CHOOSE i \in 1..Len(batch) :
                                            batch[i].respond = c])
                       ELSE units[c]]
    /\ batch' = <<>>
    /\ tick_pc' = "tick"
    /\ UNCHANGED << kvVars, counts, queue, pc, argVars, total_tokens,
                    predicted_blocks, used, reservation, chan, result, envVars >>

\* qd.store(rx.len()); an empty batch ends the tick; otherwise lbs.store and one
\* tokio::spawn per request of the batch.
TickDispatch ==
    /\ tick_pc = "store"
    /\ queue_depth' = Len(queue)
    /\ IF batch = <<>>
       THEN UNCHANGED << last_batch_size, units >>
       ELSE /\ last_batch_size' = Len(batch)
            /\ units' = [c \in Callers |->
                          IF \E i \in 1..Len(batch) : batch[i].respond = c
                          THEN Spawned(batch[CHOOSE i \in 1..Len(batch) :
                                               batch[i].respond = c])
                          ELSE units[c]]
    /\ batch' = <<>>
    /\ tick_pc' = "tick"
    /\ UNCHANGED << kvVars, counts, queue, pc, argVars, total_tokens,
                    predicted_blocks, used, reservation, chan, result, envVars >>

\* used_blocks and the free list after the reservations res are released in
\* order.
RECURSIVE ReleaseEach(_, _, _)
ReleaseEach(u, fl, res) ==
    IF res = <<>> THEN << u, fl >>
    ELSE ReleaseEach(wrapping_sub(u, Unwrap(Head(res))),
                     Append(fl, Unwrap(Head(res))), Tail(res))

\* The background task ends while it waits for the next tick (the runtime
\* shuts down): the queue's receiver is dropped, and with it the Requests still
\* in the queue, their reply senders and their reservations.
ReceiverGone ==
    /\ tick_pc = "tick"
    /\ tick_pc' = "gone"
    /\ LET after == ReleaseEach(used_blocks, free_list,
                                [i \in 1..Len(queue) |-> queue[i].reservation])
       IN  used_blocks' = after[1] /\ free_list' = after[2]
    /\ chan' = [c \in Callers |->
                  IF (\E i \in 1..Len(queue) : queue[i].respond = c)
                     /\ chan[c].state = "open"
                  THEN [chan[c] EXCEPT !.state = "closed"]
                  ELSE chan[c]]
    /\ queue' = <<>>
    /\ UNCHANGED << counts, batch, queue_depth, last_batch_size, units, pc, argVars,
                    total_tokens, predicted_blocks, used, reservation, result,
                    envVars >>

\* ------------------------------------------------------------ the work unit
\* Mutant: the work unit goes on without sending the reply.
UnitReplyForgets(c) ==
    /\ units[c].pc = "generate"
    /\ units' = [units EXCEPT ![c].pc = "drop"]
    /\ UNCHANGED << kvVars, counts, queue, tickVars, pc, argVars, total_tokens,
                    predicted_blocks, used, reservation, chan, result, envVars >>

\* Mutant: the work unit waits until the reply can be delivered.
UnitReplyNeedsReceiver(c) ==
    /\ units[c].pc = "generate"
    /\ chan[c].state = "open"
    /\ chan' = [chan EXCEPT ![c] =
                  [state |-> "sent",
                   value |-> Generated[backend][units[c].prompt][2],
                   resolutions |-> @.resolutions + 1]]
    /\ units' = [units EXCEPT ![c].pc = "drop"]
    /\ UNCHANGED << kvVars, counts, queue, tickVars, pc, argVars, total_tokens,
                    predicted_blocks, used, reservation, result, envVars >>

\* Mutant: the work unit drops the reservation first and replies afterwards.
UnitReplyAfterRelease(c) ==
    /\ units[c].pc = "generate"
    /\ IF IsSome(units[c].reservation)
       THEN /\ release(Unwrap(units[c].reservation))
            /\ units' = [units EXCEPT ![c].reservation = None]
            /\ UNCHANGED chan
       ELSE /\ LET text == Generated[backend][units[c].prompt]
               IN  chan' = [chan EXCEPT ![c] =
                              IF @.state = "open"
                              THEN [state |-> "sent",
                                    value |-> IF IsOk(text) THEN text[2] ELSE EmptyString,
                                    resolutions |-> @.resolutions + 1]
                              ELSE @]
            /\ units' = [units EXCEPT ![c].pc = "drop"]
            /\ UNCHANGED kvVars
    /\ UNCHANGED << counts, queue, tickVars, pc, argVars, total_tokens,
                    predicted_blocks, used, reservation, result, envVars >>

\* Mutant: the reply carries the text generated for any spawned request.
UnitReplyAnyText(c) ==
    /\ units[c].pc = "generate"
    /\ \E d \in Callers :
         /\ units[d].pc /= "none"
         /\ LET text == Generated[backend][units[d].prompt]
            IN  chan' = [chan EXCEPT ![c] =
                           IF @.state = "open"
                           THEN [state |-> "sent",
                                 value |-> IF IsOk(text) THEN text[2] ELSE EmptyString,
                                 resolutions |-> @.resolutions + 1]
                           ELSE @]
    /\ units' = [units EXCEPT ![c].pc = "drop"]
    /\ UNCHANGED << kvVars, counts, queue, tickVars, pc, argVars, total_tokens,
                    predicted_blocks, used, reservation, result, envVars >>

\* generate_once(..) and req.respond.send(text.unwrap_or_default()); a send to a
\* dropped receiver fails and is ignored.
UnitReply(c) ==
    /\ units[c].pc = "generate"
    /\ LET text == Generated[backend][units[c].prompt]
       IN  chan' = [chan EXCEPT ![c] =
                      IF @.state = "open"
                      THEN [state |-> "sent",
                            value |-> IF IsOk(text) THEN text[2] ELSE EmptyString,
                            resolutions |-> @.resolutions + 1]
                      ELSE @]
    /\ units' = [units EXCEPT ![c].pc = "drop"]
    /\ UNCHANGED << kvVars, counts, queue, tickVars, pc, argVars, total_tokens,
                    predicted_blocks, used, reservation, result, envVars >>

\* Mutant: the work unit ends without dropping the reservation.
UnitDropKeeps(c) ==
    /\ units[c].pc = "drop"
    /\ units' = [units EXCEPT ![c].pc = "done"]
    /\ UNCHANGED << kvVars, counts, queue, tickVars, pc, argVars, total_tokens,
                    predicted_blocks, used, reservation, chan, result, envVars >>

\* Mutant: a request whose generation gave no text is queued again.
UnitDropRequeues(c) ==
    /\ units[c].pc = "drop"
    /\ IF Generated[backend][units[c].prompt][2] = EmptyString
       THEN /\ queue' = Append(queue, [prompt |-> units[c].prompt, respond |-> c,
                                       max_tokens |-> units[c].max_tokens,
                                       reservation |-> units[c].reservation])
            /\ units' = [units EXCEPT ![c] = NoUnit]
            /\ UNCHANGED kvVars
       ELSE /\ IF IsSome(units[c].reservation)
               THEN release(Unwrap(units[c].reservation))
               ELSE UNCHANGED kvVars
            /\ units' = [units EXCEPT ![c].pc = "done", ![c].reservation = None]
            /\ UNCHANGED queue
    /\ UNCHANGED << counts, tickVars, pc, argVars, total_tokens,
                    predicted_blocks, used, reservation, chan, result, envVars >>

\* drop(req.reservation): Reservation::drop releases the blocks.
UnitDrop(c) ==
    /\ units[c].pc = "drop"
    /\ IF IsSome(units[c].reservation)
       THEN release(Unwrap(units[c].reservation))
       ELSE UNCHANGED kvVars
    /\ units' = [units EXCEPT ![c].pc = "done", ![c].reservation = None]
    /\ UNCHANGED << counts, queue, tickVars, pc, argVars, total_tokens,
                    predicted_blocks, used, reservation, chan, result, envVars >>

\* Mutant: defragment also resets the accounting.
DefragmentResets ==
    /\ free_list' = <<>>
    /\ used_blocks' = 0
    /\ UNCHANGED << counts, queue, tickVars, units, pc, argVars,
                    total_tokens, predicted_blocks, used, reservation, chan, result,
                    envVars >>

\* PagedKvManager::defragment
Defragment ==
    /\ free_list' = <<>>
    /\ UNCHANGED << used_blocks, counts, queue, tickVars, units, pc, argVars,
                    total_tokens, predicted_blocks, used, reservation, chan, result,
                    envVars >>

\* ------------------------------------------------------ the sampler's calls
\* The arguments of the two invocations are chosen.
SampleChoose(a) ==
    /\ sampler.args = None
    /\ sampler' = [sampler EXCEPT !.args = Some(a)]
    /\ UNCHANGED << kvVars, counts, queue, tickVars, units, pc, argVars,
                    total_tokens, predicted_blocks, used, reservation, chan, result,
                    backend, workload, calls >>

\* Invocation i of sample_top_k_top_p runs: it draws from its own generator.
Sample(i) ==
    /\ IsSome(sampler.args)
    /\ sampler.out[i] = None
    /\ \E r \in rng(Unwrap(sampler.args).seed) :
         sampler' = [sampler EXCEPT
                       !.out[i] = Some(sample_top_k_top_p(Unwrap(sampler.args), r))]
    /\ UNCHANGED << kvVars, counts, queue, tickVars, units, pc, argVars,
                    total_tokens, predicted_blocks, used, reservation, chan, result,
                    backend, workload, calls >>

SamplerNext ==
    \/ \E a \in SampleArgs : SampleChoose(a)
    \/ \E i \in 1..2 : Sample(i)

\* The steps of the program where no addition exceeds the word.
NextNoOverflow ==
    \/ \E c \in Callers, inp \in workload : EnqueueNote(c, inp[1], inp[2])
    \/ \E c \in Callers : EnqueuePredict(c)
    \/ \E c \in Callers : TryReserveLoad(c)
    \/ \E c \in Callers : TryReserveCas(c)
    \/ \E c \in Callers : EnqueueSend(c)
    \/ \E c \in Callers : EnqueueReturn(c)
    \/ TickDrain
    \/ TickDispatch
    \/ \E c \in Callers : UnitReply(c)
    \/ \E c \in Callers : UnitDrop(c)

Next ==
    \/ NextNoOverflow
    \/ \E c \in Callers : EnqueuePanic(c)

Spec == Init /\ [][Next]_vars

\* The scheduler with an owner of the manager that may call defragment at any
\* moment.
DefragNext ==
    \/ Next
    \/ Defragment

\* The scheduler with callers that may be cancelled while their send is
\* suspended; no addition exceeds the word.
CancelNext ==
    \/ NextNoOverflow
    \/ \E c \in Callers : CancelSend(c)

\* The scheduler whose background task may end.
ClosedNext ==
    \/ Next
    \/ ReceiverGone

\* The scheduler with callers that may give up waiting for their reply.
AbandonNext ==
    \/ Next
    \/ \E c \in Callers : Abandon(c)

\* ======================================================================
\* Properties
\* ======================================================================

RECURSIVE SumBlocks(_, _)
\* Sum of the blocks of the reservations carried by the requests reqs[i..].
SumBlocks(reqs, i) ==
    IF i > Len(reqs) THEN 0
    ELSE (IF IsSome(reqs[i].reservation) THEN Unwrap(reqs[i].reservation) ELSE 0)
         + SumBlocks(reqs, i + 1)
RECURSIVE SumOver(_, _)
SumOver(f, S) ==
    IF S = {} THEN 0
    ELSE LET x == CHOOSE y \in S : TRUE IN f[x] + SumOver(f, S \ {x})
\* Blocks of the reservations that are live: held by a caller between its
\* compare_exchange and its send, by a queued or batched request, or by a
\* work unit that has not dropped it.
LiveBlocks ==
    SumOver([c \in Callers |-> IF IsSome(reservation[c]) THEN Unwrap(reservation[c]) ELSE 0],
            Callers)
    + SumBlocks(queue, 1) + SumBlocks(batch, 1)
    + SumOver([c \in Callers |->
                 IF IsSome(units[c].reservation) THEN Unwrap(units[c].reservation) ELSE 0],
              Callers)

\* The request of caller c is in the queue, in the batch or in a work unit.
InQueue(c) == \E i \in 1..Len(queue) : queue[i].respond = c
InBatch(c) == \E i \in 1..Len(batch) : batch[i].respond = c
Admitted(c) == chan[c].state /= "none"
\* The caller's try_reserve returned None.
Denied(c) == pc[c] = "done" /\ chan[c].state = "none"

\* C1 (capacity ceiling): in every reachable state, whatever the interleaving
\* of the callers' try_reserve steps and the work units' drops,
\* 0 <= used_blocks <= capacity_blocks.
C1_CapacityCeiling == 0 <= used_blocks /\ used_blocks <= capacity_blocks

\* C1's case: a caller sits between its load and its compare_exchange with a
\* value that passed the capacity test, and a concurrent reservation has since
\* left too little room for it.
C1_Witness ==
    \E c \in Callers :
        /\ pc[c] = "cas"
        /\ used[c] /= used_blocks
        /\ used[c] + predicted_blocks[c] <= capacity_blocks
        /\ used_blocks + predicted_blocks[c] > capacity_blocks

\* C2 (reservation conservation): in every reachable state used_blocks equals
\* the sum of the block counts of the live reservations; no interleaving of
\* reservations and releases loses an update.
C2_Conservation == used_blocks = LiveBlocks

\* C2's case: one reservation was released while two others are live, and a
\* caller holds a value of used_blocks that a concurrent update made stale.
C2_Witness ==
    /\ free_list /= <<>>
    /\ used_blocks > 0
    /\ Cardinality({c \in Callers : IsSome(units[c].reservation)
                                    \/ IsSome(reservation[c]) \/ InQueue(c)}) >= 2

\* C3 (drop releases exactly once): the step that drops a reservation of n
\* blocks decreases used_blocks by exactly n and pushes n once; a work unit
\* that has dropped its reservation holds none and never acts again, and
\* used_blocks decreases in no other step. With C4 (a reservation adds exactly
\* n), reserving and dropping with nothing in between restores used_blocks.
C3_DropReleasesOnce ==
    [][ /\ \A c \in Callers :
             (IsSome(units[c].reservation) /\ ~IsSome(units'[c].reservation))
             => /\ used_blocks' = used_blocks - Unwrap(units[c].reservation)
                /\ free_list' = Append(free_list, Unwrap(units[c].reservation))
                /\ units'[c].pc = "done"
        /\ \A c \in Callers :
             units[c].pc = "done" => units'[c] = units[c] /\ units[c].reservation = None
        /\ used_blocks' < used_blocks
             => \E c \in Callers : units[c].pc = "drop" /\ units'[c].pc = "done"
      ]_vars

\* C3's case: a reservation of 4 blocks has been dropped by its work unit.
C3_Witness ==
    \E c \in Callers :
        /\ units[c].pc = "done"
        /\ predicted_blocks[c] = 4
        /\ free_list = <<4>>
        /\ used_blocks = 0

\* C4 (try_reserve): a call returns a Reservation, adding exactly blocks to
\* used_blocks, only by a compare_exchange at which used_blocks + blocks <=
\* capacity_blocks; it returns None, changing nothing, only when its load saw
\* used_blocks + blocks > capacity_blocks; a failed compare_exchange changes
\* nothing and repeats the loop.
C4_TryReserve ==
    [][ \A c \in Callers :
          /\ (pc[c] = "cas" /\ pc'[c] = "send")
             => /\ used_blocks + predicted_blocks[c] <= capacity_blocks
                /\ used_blocks' = used_blocks + predicted_blocks[c]
                /\ reservation'[c] = Some(predicted_blocks[c])
          /\ (pc[c] = "cas" /\ pc'[c] = "load")
             => /\ used_blocks /= used[c]
                /\ used_blocks' = used_blocks
                /\ reservation'[c] = None
          /\ (pc[c] = "load" /\ pc'[c] = "cas")
             => used_blocks + predicted_blocks[c] <= capacity_blocks
          /\ (pc[c] = "load" /\ pc'[c] = "done")
             => /\ used_blocks + predicted_blocks[c] > capacity_blocks
                /\ used_blocks' = used_blocks
                /\ reservation'[c] = None
          /\ (pc[c] = "load" /\ used_blocks + predicted_blocks[c] <= capacity_blocks)
             => pc'[c] \in {"load", "cas"}
      ]_vars

\* C4's case: two calls hold Reservations of 5 and 4 blocks and a third, which
\* asked for more than the block that is left, returned None.
C4_Witness ==
    /\ used_blocks = 9
    /\ \E c \in Callers : Admitted(c) /\ predicted_blocks[c] = 5
    /\ \E c \in Callers : Admitted(c) /\ predicted_blocks[c] = 4
    /\ \E c \in Callers : Denied(c) /\ predicted_blocks[c] > 1

\* C5 (admission failure): the step at which enqueue's try_reserve fails makes
\* enqueue return "SERVER_BUSY: insufficient KV capacity" and leaves
\* used_blocks, the queue and the batch unchanged and no reply channel created;
\* a denied call has no request in the queue, in a batch or in a work unit.
C5_FailedAdmission ==
    /\ [][ \A c \in Callers :
             (/\ pc[c] = "load"
              /\ pc'[c] \notin {"load", "panicked"}
              /\ used_blocks + predicted_blocks[c] > capacity_blocks)
             => /\ pc'[c] = "done"
                /\ result'[c] = << 83, 69, 82, 86, 69, 82, 95, 66, 85, 83, 89, 58, 32,
                                   105, 110, 115, 117, 102, 102, 105, 99, 105, 101,
                                   110, 116, 32, 75, 86, 32, 99, 97, 112, 97, 99, 105,
                                   116, 121 >>
                /\ chan'[c].state = "none"
                /\ reservation'[c] = None
                /\ used_blocks' = used_blocks
                /\ queue' = queue
                /\ batch' = batch
                /\ units' = units
         ]_vars
    /\ [](\A c \in Callers :
            Denied(c) => ~InQueue(c) /\ ~InBatch(c) /\ units[c].pc = "none"
                         /\ chan[c].resolutions = 0)

\* C5's case: a call was denied while another request waits in the queue.
C5_Witness ==
    /\ \E c \in Callers : Denied(c) /\ result[c] = SERVER_BUSY
    /\ queue /= <<>>
    /\ used_blocks > 0

\* Ceiling of a / b over the integers.
CeilDiv(a, b) == (a + b - 1) \div b
\* The admission size of the specification, over the integers:
\* max(1, byte_length / 4) + max_tokens, less 32 (not below 0) when common.
SpecTotalTokens(p, m, common) ==
    LET sum == Max(1, Len(Prompts[p]) \div 4) + m
    IN  IF common THEN Max(0, sum - 32) ELSE sum

\* C6 (admission size): at the step where enqueue computes predicted_blocks,
\* for every prompt and max_tokens, predicted_blocks = ceil(total_tokens / 32)
\* with total_tokens = max(1, byte_length(prompt) / 4) + max_tokens, less 32
\* (not below 0) when the prefix is common.
C6_AdmissionSize ==
    [][ \A c \in Callers :
          (pc[c] = "is_common" /\ pc'[c] = "load")
          => predicted_blocks'[c] =
               CeilDiv(SpecTotalTokens(prompt[c], max_tokens[c],
                                       is_common(counts, PromptHash[prompt[c]])),
                       32)
      ]_vars

\* The caller's total_tokens carries no discount / carries the discount.
Undiscounted(c) ==
    total_tokens[c] = wrapping_add(est_prompt_tokens(prompt[c]), max_tokens[c])
Discounted(c) ==
    total_tokens[c] = saturating_sub(wrapping_add(est_prompt_tokens(prompt[c]),
                                                  max_tokens[c]), 32)
Predicted(c) == pc[c] \in {"load", "cas", "send", "await", "done"}

\* C8 (prefix discount): when the same prompt is enqueued twice with the same
\* max_tokens, the first call undiscounted and the second discounted by 32,
\* the second call's predicted_blocks is at most the first's: a common prefix
\* never increases the predicted blocks.
C8_PrefixDiscount ==
    \A c, d \in Callers :
        (/\ c < d
         /\ Predicted(c) /\ Predicted(d)
         /\ prompt[c] = prompt[d] /\ max_tokens[c] = max_tokens[d]
         /\ Undiscounted(c) /\ Discounted(d))
        => predicted_blocks[d] <= predicted_blocks[c]

\* C7 (oversubscription, S2): with the 10-block pool (capacity_bytes =
\* 4096 * 10) and nothing released,
\* when three admissions of 4 blocks each have run, two of them succeeded,
\* used_blocks = 8 and the other returned "SERVER_BUSY: insufficient KV
\* capacity"; the one that fails does so after the two successes (it loads
\* used_blocks = 8) and leaves used_blocks = 8.
C7_Oversubscription ==
    /\ [](( /\ CapacityBytes = 4096 * 10
            /\ free_list = <<>>
            /\ \A c \in Active :
                 predicted_blocks[c] = 4 /\ pc[c] \in {"send", "await", "done"})
          => /\ used_blocks = 8
             /\ Cardinality({c \in Callers : Admitted(c)}) = 2
             /\ \A c \in Active : ~Admitted(c) => result[c] = SERVER_BUSY)
    /\ [][ \A c \in Callers :
             (/\ CapacityBytes = 4096 * 10
              /\ free_list = <<>>
              /\ \A d \in Active : Predicted(d) /\ predicted_blocks[d] = 4
              /\ pc[c] = "load" /\ pc'[c] = "done")
             => /\ used_blocks = 8 /\ used_blocks' = 8
                /\ Cardinality({d \in Callers : Admitted(d)}) = 2
         ]_vars

\* C7's case: three admissions of 4 blocks each have run, nothing released.
C7_Witness ==
    /\ free_list = <<>>
    /\ \A c \in Active : predicted_blocks[c] = 4 /\ pc[c] \in {"send", "await", "done"}
    /\ \E c \in Callers : result[c] = SERVER_BUSY /\ pc[c] = "done"

\* C9 (reply uniqueness): the reply channel of a request placed on the queue
\* is resolved at most once in every state, not before its work unit replies,
\* and exactly once from the moment its work unit has replied.
C9_ReplyUniqueness ==
    \A c \in Callers :
        /\ chan[c].resolutions <= 1
        /\ (InQueue(c) \/ InBatch(c) \/ units[c].pc = "generate")
           => chan[c].resolutions = 0 /\ chan[c].state = "open"
        /\ units[c].pc \in {"drop", "done"} => chan[c].resolutions = 1
        /\ (pc[c] = "done" /\ Admitted(c)) => chan[c].resolutions = 1

\* C9's case: all the requests of a batch of two have been replied to and one
\* caller has received its reply.
C9_Witness ==
    /\ last_batch_size = 2
    /\ \A c \in Active : units[c].pc \in {"drop", "done"}
    /\ \E c \in Callers : pc[c] = "done" /\ chan[c].state = "received"

\* The scheduling the runtime provides: the tick loop keeps ticking, spawned
\* work units run, and a caller whose reply is ready is resumed.
Fairness ==
    /\ WF_vars(TickDrain)
    /\ WF_vars(TickDispatch)
    /\ \A c \in Callers : WF_vars(UnitReply(c))
    /\ \A c \in Callers : WF_vars(UnitDrop(c))
    /\ \A c \in Callers : WF_vars(EnqueueReturn(c))
\* The inputs of the liveness check: a 5-block request (4 once common) and the
\* request whose addition exceeds the word.
LiveInputs == { <<1, 60>>, <<1, WordMax - 130>> }
LiveInit == InitWith("mock", LiveInputs)
LiveSpec == LiveInit /\ [][Next]_vars /\ Fairness

\* C10 (reply liveness): under fair scheduling of the tick loop and of the
\* work units, every call whose request was sent on the queue eventually
\* returns with the reply its work unit sent.
C10_ReplyLiveness ==
    \A c \in Callers :
        (pc[c] = "await") ~> (pc[c] = "done" /\ chan[c].state = "received"
                              /\ chan[c].resolutions = 1)

\* C10's case: three concurrent calls were admitted and each has returned the
\* text generated for it.
C10_Witness ==
    \A c \in Active :
        /\ pc[c] = "done"
        /\ chan[c].state = "received"
        /\ result[c] = Prompts[prompt[c]]

\* The scheduling behind release: that of Fairness, and a caller holding a
\* reservation goes on to its send (the queue's permits are handed out fairly).
ReleaseFairness ==
    /\ Fairness
    /\ \A c \in Callers : WF_vars(EnqueueSend(c))
ReleaseSpec == LiveInit /\ [][Next]_vars /\ ReleaseFairness

\* No call is in progress and no request is in the queue, in a batch or in an
\* unfinished work unit.
Quiescent ==
    /\ \A c \in Callers : pc[c] \in {"idle", "done", "panicked"}
    /\ \A c \in Callers : units[c].pc \in {"none", "done"}
    /\ queue = <<>> /\ batch = <<>>

\* C11 (release liveness): under fair scheduling every reservation taken by an
\* admitted request is eventually dropped by its work unit, and whenever all
\* admitted requests have been replied to, their work units have finished and
\* no call is in progress, used_blocks is 0.
C11_ReleaseLiveness ==
    /\ \A c \in Callers :
         IsSome(reservation[c])
         ~> (units[c].pc = "done" /\ units[c].reservation = None
             /\ reservation[c] = None)
    /\ [](Quiescent => used_blocks = 0)

\* C11's case: every call has returned, a reservation of 5 blocks and another
\* one were taken and released, and used_blocks is back to 0.
C11_Witness ==
    /\ Quiescent
    /\ \A c \in Active : pc[c] = "done"
    /\ used_blocks = 0
    /\ Len(free_list) >= 2
    /\ \E i \in 1..Len(free_list) : free_list[i] = 5

\* C12 (tick bound): the batch drained in a tick, the recorded batch size and
\* the number of work units spawned by one tick are at most BATCH_MAX (32 in
\* the code, scaled here), also when the queue holds more than BATCH_MAX
\* requests.
C12_TickBound ==
    /\ [](Len(batch) <= BATCH_MAX /\ last_batch_size <= BATCH_MAX)
    /\ [][ /\ (tick_pc = "tick" /\ tick_pc' = "store")
              => /\ Len(batch') <= BATCH_MAX
                 /\ Len(queue) - Len(queue') <= BATCH_MAX
           /\ Cardinality({c \in Callers : units[c].pc = "none"
                                            /\ units'[c].pc /= "none"}) <= BATCH_MAX
         ]_vars

\* C12's case: a tick found more than BATCH_MAX requests in the queue and
\* drained BATCH_MAX of them.
C12_Witness ==
    /\ tick_pc = "store"
    /\ Len(batch) = BATCH_MAX
    /\ queue /= <<>>

\* The Request enqueue sends for caller c.
RequestOf(c) ==
    [prompt |-> prompt[c], respond |-> c, max_tokens |-> max_tokens[c],
     reservation |-> reservation[c]]

\* C13 (FIFO drain): a send puts the request behind every request sent before
\* it; a drain takes the requests at the head of the queue, in queue order, and
\* leaves the later ones in the queue in their order; the tick dispatches its
\* whole batch; no other step touches the queue or the batch. Hence batch order
\* is send order, and a request sent before another is never in a later batch.
C13_FifoDrain ==
    [][ /\ \A c \in Callers :
             (pc[c] = "send" /\ pc'[c] = "await")
             => queue' = queue \o << RequestOf(c) >> /\ batch' = batch
        /\ (tick_pc = "tick" /\ tick_pc' = "store")
             => /\ batch = <<>>
                /\ batch' \o queue' = queue
                /\ (queue /= <<>> => batch' /= <<>>)
        /\ (tick_pc = "store" /\ tick_pc' = "tick")
             => /\ queue' = queue /\ batch' = <<>>
                /\ \A i \in 1..Len(batch) : units'[batch[i].respond].pc = "generate"
        /\ ((\A c \in Callers : pc'[c] = pc[c]) /\ tick_pc' = tick_pc)
             => queue' = queue /\ batch' = batch
      ]_vars

\* C13's case: three requests were queued; the first tick dispatched the two
\* at the head, the next tick has drained the third.
C13_Witness ==
    /\ tick_pc = "store"
    /\ Len(batch) = 1
    /\ last_batch_size = 2
    /\ Cardinality({c \in Callers : units[c].pc /= "none"}) = 2

\* Number of places (queue positions, batch positions, running work units)
\* that hold the request of caller c.
Holders(c) ==
    Cardinality({i \in 1..Len(queue) : queue[i].respond = c})
    + Cardinality({i \in 1..Len(batch) : batch[i].respond = c})
    + (IF units[c].pc \in {"generate", "drop"} THEN 1 ELSE 0)

\* C14 (request carries its reservation): every Request in the queue, in the
\* batch or in a work unit that has not finished carries a reservation (never
\* none), each request is in one place only, the blocks of these reservations
\* are counted in used_blocks, and a work unit still holds the reservation
\* while it generates and until it has replied.
C14_RequestReservation ==
    /\ \A i \in 1..Len(queue) :
         IsSome(queue[i].reservation)
         /\ Unwrap(queue[i].reservation) = predicted_blocks[queue[i].respond]
    /\ \A i \in 1..Len(batch) :
         IsSome(batch[i].reservation)
         /\ Unwrap(batch[i].reservation) = predicted_blocks[batch[i].respond]
    /\ \A c \in Callers :
         /\ units[c].pc \in {"generate", "drop"}
            => units[c].reservation = Some(predicted_blocks[c])
         /\ Holders(c) <= 1
         /\ Holders(c) = 1 => reservation[c] = None
    /\ SumOver([c \in Callers |-> IF Holders(c) = 1 THEN predicted_blocks[c] ELSE 0],
               Callers) <= used_blocks

\* C14's case: one request is in the queue, one in the batch and one in a
\* work unit that is generating, and their reservations fill the pool.
C14_Witness ==
    /\ Len(queue) = 1 /\ Len(batch) = 1
    /\ \E c \in Callers : units[c].pc = "generate"
    /\ used_blocks = capacity_blocks

\* The state of the request of caller c in the request state machine.
ReqState(c) ==
    IF Denied(c) THEN "FailedAdmission"
    ELSE IF pc[c] = "send" THEN "Admitted"
    ELSE IF InQueue(c) THEN "Queued"
    ELSE IF InBatch(c) THEN "Batched"
    ELSE IF units[c].pc = "generate" THEN "Dispatched"
    ELSE IF units[c].pc = "drop" THEN "Replied"
    ELSE IF units[c].pc = "done" THEN "Dropped"
    ELSE "NotAdmitted"

\* The transitions of the request state machine.
ReqTransitions ==
    { <<"NotAdmitted", "Admitted">>, <<"NotAdmitted", "FailedAdmission">>,
      <<"Admitted", "Queued">>, <<"Queued", "Batched">>,
      <<"Batched", "Dispatched">>, <<"Dispatched", "Replied">>,
      <<"Replied", "Dropped">> }

\* C15 (request state machine): every step leaves the state of each request
\* unchanged or moves it along NotAdmitted -> Admitted -> Queued -> Batched ->
\* Dispatched -> Replied -> Dropped, one state at a time, so that no state is
\* skipped or revisited; a request that fails admission stays in
\* FailedAdmission and is never queued.
C15_RequestStateMachine ==
    [][ \A c \in Callers :
          \/ ReqState(c)' = ReqState(c)
          \/ << ReqState(c), ReqState(c)' >> \in ReqTransitions
      ]_vars

\* C15's case: one request has gone through all the states and its caller has
\* its reply, and another call failed admission.
C15_Witness ==
    /\ \E c \in Callers :
         ReqState(c) = "Dropped" /\ pc[c] = "done" /\ chan[c].state = "received"
    /\ \E c \in Callers : ReqState(c) = "FailedAdmission"

\* The scheduler started on any of the backends; callers submit the 4-byte
\* prompt, or the request whose addition exceeds the word.
BackendInputs == { <<2, 60>>, <<1, WordMax - 130>> }
BackendInit == \E b \in Backends : InitWith(b, BackendInputs)
BackendSpec == BackendInit /\ [][Next]_vars

\* C16 (backend errors): when the backend's tokenize or detokenize fails
\* during generate_once, the caller of enqueue receives the empty string.
C16_BackendErrors ==
    \A c \in Callers :
        (/\ backend \in {"tokenize_fails", "detokenize_fails"}
         /\ pc[c] = "done" /\ chan[c].state = "received")
        => result[c] = <<>>

AbandonSpec == LiveInit /\ [][AbandonNext]_vars /\ ReleaseFairness

\* C17 (caller abandonment): when the caller has dropped its reply receiver
\* after its request was queued, the work unit still runs to its end under fair
\* scheduling and its reservation is released; the reply step of the work unit
\* changes nothing but the unit's own position (the failed send is ignored),
\* the caller never gets a result, and once everything has finished
\* used_blocks is 0.
C17_CallerAbandonment ==
    /\ \A c \in Callers :
         (pc[c] = "abandoned")
         ~> (units[c].pc = "done" /\ units[c].reservation = None
             /\ ~InQueue(c) /\ ~InBatch(c))
    /\ [](\A c \in Callers :
            pc[c] = "abandoned"
            => /\ result[c] = <<>>
               /\ chan[c].state = "dropped" /\ chan[c].value = <<>>)
    /\ [][ \A c \in Callers :
             /\ (chan[c].state = "dropped" /\ units[c].pc = "generate"
                                          /\ units'[c].pc /= "generate")
                => /\ units'[c] = [units[c] EXCEPT !.pc = "drop"]
                   /\ chan' = chan /\ result' = result
                   /\ used_blocks' = used_blocks
             /\ (chan[c].state = "dropped" /\ units[c].pc = "drop"
                                          /\ units'[c].pc /= "drop")
                => /\ units'[c].pc = "done"
                   /\ used_blocks' = used_blocks - predicted_blocks[c]
         ]_vars
    /\ []((/\ \A c \in Callers : pc[c] \in {"idle", "done", "panicked", "abandoned"}
           /\ \A c \in Callers : units[c].pc \in {"none", "done"}
           /\ queue = <<>> /\ batch = <<>>)
          => used_blocks = 0)

\* C17's case: a caller gave up before its work unit replied; the work unit
\* has run to its end and the 5 blocks of the request are released.
C17_Witness ==
    \E c \in Callers :
        /\ pc[c] = "abandoned"
        /\ chan[c].resolutions = 0
        /\ units[c].pc = "done"
        /\ predicted_blocks[c] = 5
        /\ \E i \in 1..Len(free_list) : free_list[i] = 5

ClosedSpec == LiveInit /\ [][ClosedNext]_vars

\* C18 (queue closed): when the queue's receiver is gone at enqueue's send, the
\* send step releases the reservation taken for the request (used_blocks goes
\* down by the blocks the admission added, which are pushed on the free list),
\* nothing is queued and the reply sender is dropped; enqueue then returns the
\* empty string. At every moment used_blocks is the sum of the live
\* reservations, so the failed send restores the value before the admission.
C18_QueueClosed ==
    /\ [][ \A c \in Callers :
             /\ (tick_pc = "gone" /\ pc[c] = "send" /\ pc'[c] /= "send")
                => /\ pc'[c] = "await"
                   /\ used_blocks' = used_blocks - predicted_blocks[c]
                   /\ free_list' = Append(free_list, predicted_blocks[c])
                   /\ reservation'[c] = None
                   /\ chan'[c].state = "closed"
                   /\ queue' = <<>> /\ batch' = <<>> /\ units' = units
             /\ (chan[c].state = "closed" /\ pc[c] = "await" /\ pc'[c] /= "await")
                => pc'[c] = "done" /\ result'[c] = <<>>
         ]_vars
    /\ [](tick_pc = "gone" => queue = <<>> /\ batch = <<>>)
    /\ [](used_blocks = LiveBlocks)

\* C18's case: the receiver is gone, a call admitted with 5 blocks has
\* returned without a reply, and its blocks are released.
C18_Witness ==
    /\ tick_pc = "gone"
    /\ \E c \in Callers :
         /\ pc[c] = "done" /\ Admitted(c)
         /\ chan[c].resolutions = 0
         /\ result[c] = <<>>
         /\ predicted_blocks[c] = 5
    /\ used_blocks = 0
    /\ \E i \in 1..Len(free_list) : free_list[i] = 5

\* Number of calls of note(h) so far: the calls of enqueue whose prompt has
\* the prefix hash h (hash_prefix having returned it).
NoteCalls(h) ==
    Cardinality({c \in Callers : /\ pc[c] /= "idle"
                                 /\ ~hash_prefix_panics(Prompts[prompt[c]])
                                 /\ PromptHash[prompt[c]] = h})

\* C19 (prefix counting): in every state, whatever the interleaving of the
\* callers, the count of h equals the number K of calls of note(h), and
\* is_common(h) is true iff K >= 2; no step decreases a count.
C19_PrefixCounting ==
    /\ [](\A h \in Hashes :
            /\ counts[h] = NoteCalls(h)
            /\ is_common(counts, h) <=> NoteCalls(h) >= 2)
    /\ [][ \A h \in Hashes : counts'[h] >= counts[h] ]_vars

\* C19's case: note was called twice for one prefix and once for another, by
\* callers that are still inside enqueue.
C19_Witness ==
    /\ counts[PromptHash[1]] = 2
    /\ counts[PromptHash[2]] = 1
    /\ is_common(counts, PromptHash[1]) /\ ~is_common(counts, PromptHash[2])
    /\ \A c \in Active : pc[c] \in {"is_common", "load", "cas"}

\* Callers submit requests of 7 blocks (100 + 124 tokens, or 100 + 156 less the
\* discount), of which the 10-block pool holds one at a time, or the request
\* whose addition exceeds the word.
MonoInputs == { <<1, 124>>, <<1, 156>>, <<1, WordMax - 130>> }
MonoInit == InitWith("mock", MonoInputs)
MonoSpec == MonoInit /\ [][Next]_vars

\* C20 (admission monotonicity): a call that returns none does so on a loaded
\* value u of used_blocks with u + n > capacity_blocks; when later a call for
\* the same n obtains its reservation, used_blocks is below u; and used_blocks
\* goes down only in a step that releases a reservation (it pushes the released
\* blocks on the free list). Hence a reservation was released in between, and
\* with no release in between the later call returns none as well.
C20_AdmissionMonotonicity ==
    [][ /\ \A c \in Callers :
             (pc[c] = "load" /\ pc'[c] = "done")
             => /\ used'[c] = used_blocks
                /\ used_blocks + predicted_blocks[c] > capacity_blocks
        /\ \A c, d \in Callers :
             (/\ Denied(c)
              /\ predicted_blocks[d] = predicted_blocks[c]
              /\ pc[d] = "cas" /\ pc'[d] = "send")
             => used_blocks < used[c]
        /\ (used_blocks' < used_blocks)
             => \E n \in 0..capacity_blocks :
                  /\ used_blocks' = used_blocks - n
                  /\ free_list' = Append(free_list, n)
      ]_vars

\* C20's case: a call for 7 blocks was denied while 7 blocks were in use, that
\* reservation was released, and another call for 7 blocks has obtained its
\* reservation.
C20_Witness ==
    \E c, d \in Callers :
        /\ Denied(c) /\ predicted_blocks[c] = 7 /\ used[c] = 7
        /\ pc[d] = "send" /\ predicted_blocks[d] = 7
        /\ free_list = <<7>>
        /\ used_blocks = 7


\* The request is oversized by the specification's arithmetic over the
\* integers, discounted or not: ceil(total_tokens / 32) > capacity_blocks.
Oversized(c) ==
    CeilDiv(SpecTotalTokens(prompt[c], max_tokens[c], TRUE), 32) > capacity_blocks

\* C21 (oversized requests): a request whose block count, computed without
\* wrap-around from est_prompt_tokens + max_tokens and tokens + 31, exceeds
\* capacity_blocks always fails admission: try_reserve returns None for it, so
\* it never reaches the compare_exchange, never holds a reservation and is
\* never sent to the queue.
C21_OversizedDenied ==
    \A c \in Callers :
        (Predicted(c) /\ Oversized(c))
        => /\ pc[c] \notin {"cas", "send", "await"}
           /\ reservation[c] = None
           /\ ~Admitted(c)

\* The inputs with multi-byte characters: the 260-byte prompt with a character
\* across byte offset 256, the 10-byte prompt of multi-byte characters, and the
\* request whose addition exceeds the word.
UnicodeInputs == { <<3, 60>>, <<4, 60>>, <<1, WordMax - 130>> }
UnicodeInit == InitWith("mock", UnicodeInputs)
UnicodeSpec == UnicodeInit /\ [][Next]_vars

\* C22 (no panics): enqueue completes with a string for every prompt, also for
\* a prompt longer than 256 bytes whose byte offset 256 falls inside a
\* multi-byte character: the call of such a prompt never panics.
C22_NoPanicOnPrefix ==
    \A c \in Callers :
        (prompt[c] \in PromptIds /\ hash_prefix_panics(Prompts[prompt[c]]))
        => pc[c] /= "panicked"

\* The text generate_once computes from the prompt of caller c's request.
OwnText(c) == Generated[backend][prompt[c]][2]

\* C23 (reply routing): the value sent on the reply channel of request i, and
\* the value enqueue returns to its caller, is the generation result computed
\* from request i's own prompt, whatever the order in which the work units of
\* the same or of different batches complete.
C23_ReplyRouting ==
    \A c \in Callers :
        /\ chan[c].state \in {"sent", "received"} => chan[c].value = OwnText(c)
        /\ (pc[c] = "done" /\ chan[c].state = "received") => result[c] = OwnText(c)

\* C23's case: two requests with different prompts were dispatched, the one
\* called later has been answered with its own text while the work unit of the
\* earlier one has not replied yet.
C23_Witness ==
    \E c, d \in Callers :
        /\ c < d
        /\ units[c].pc = "generate"
        /\ pc[d] = "done" /\ chan[d].state = "received"
        /\ OwnText(c) /= OwnText(d)
        /\ result[d] = OwnText(d)

\* Characters of the valid texts checked: the first and last of each encoded
\* length, the surrogate gap's neighbours and U+FFFD itself.
MaxChars == 3
Chars ==
    { <<0>>, <<97>>, <<127>>,
      <<194, 128>>, <<195, 169>>, <<223, 191>>,
      <<224, 160, 128>>, <<226, 130, 172>>, <<237, 159, 191>>,
      <<238, 128, 128>>, <<239, 191, 189>>,
      <<240, 144, 128, 128>>, <<240, 159, 152, 128>>, <<244, 143, 191, 191>> }
RECURSIVE Texts(_)
\* The texts of at most n of these characters.
Texts(n) ==
    IF n = 0 THEN { <<>> }
    ELSE LET shorter == Texts(n - 1)
         IN  shorter \cup { t \o ch : t \in shorter, ch \in Chars }
ValidTexts == Texts(MaxChars) \cup { Prompts[p] : p \in PromptIds }

\* tokenize yields one token id per byte, the byte's value, and detokenize
\* gives the text back.
MockRoundTrip ==
    \A t \in ValidTexts :
        LET tokens == tokenize("mock", t)
        IN  /\ IsOk(tokens)
            /\ Len(tokens[2]) = Len(t)
            /\ \A i \in 1..Len(t) : tokens[2][i] = t[i]
            /\ detokenize("mock", tokens[2]) = Ok(t)

\* C24 (mock round trip): on the mock backend tokenize maps each byte of the
\* text to one token id and detokenize(tokenize(t)) = t for every valid text
\* t; so a request admitted and served by the mock backend is answered with
\* its own prompt.
C24_MockRoundTrip ==
    /\ MockRoundTrip
    /\ \A c \in Callers :
         (backend = "mock" /\ chan[c].state \in {"sent", "received"})
         => chan[c].value = Prompts[prompt[c]]
    /\ \A c \in Callers :
         (backend = "mock" /\ pc[c] = "done" /\ chan[c].state = "received")
         => result[c] = Prompts[prompt[c]]

\* C24's case: the request with the prompt of two-, three- and four-byte
\* characters was admitted, served by the mock backend and answered with that
\* prompt.
C24_Witness ==
    \E c \in Callers :
        /\ backend = "mock"
        /\ pc[c] = "done" /\ chan[c].state = "received"
        /\ \E i \in 1..Len(Prompts[prompt[c]]) : Prompts[prompt[c]][i] >= 128
        /\ result[c] = Prompts[prompt[c]]

\* Invocations of the sampler alone.
SamplerSpec == InitFor("mock", {}, 0) /\ [][SamplerNext]_vars

TryReserveFairness ==
    /\ \A c \in Callers : WF_vars(TryReserveLoad(c))
    /\ \A c \in Callers : WF_vars(TryReserveCas(c))
LockFreeSpec == LiveInit /\ [][Next]_vars /\ TryReserveFairness

\* C26 (lock-free try_reserve): an iteration of the compare-and-swap loop is
\* repeated only when used_blocks was changed between the load and the
\* compare_exchange; a caller inside try_reserve can always take its step and
\* leaves the free list alone (it never waits on the free-list mutex); and with
\* the finitely many operations of the other callers and work units every
\* try_reserve ends with a reservation (the caller goes on to send) or with
\* None (the caller is done with SERVER_BUSY).
C26_LockFree ==
    /\ [][ \A c \in Callers :
             /\ (pc[c] = "cas" /\ pc'[c] = "load") => used_blocks /= used[c]
             /\ (pc[c] \in {"load", "cas"} /\ pc'[c] /= pc[c])
                => free_list' = free_list
         ]_vars
    /\ [](\A c \in Callers :
            /\ pc[c] = "load" => ENABLED TryReserveLoad(c)
            /\ pc[c] = "cas" => ENABLED TryReserveCas(c))
    /\ \A c \in Callers :
         (pc[c] \in {"load", "cas"}) ~> (pc[c] \in {"send", "done"})

\* C26's case: a caller is about to fail its compare_exchange and repeat the
\* loop, because another caller's reservation changed used_blocks after its
\* load.
C26_Witness ==
    \E c, d \in Callers :
        /\ c /= d
        /\ pc[c] = "cas" /\ used[c] /= used_blocks
        /\ IsSome(reservation[d])

\* C27 (reply precedes release): a work unit holds its request's reservation
\* until it has sent the reply: while the unit has not replied the reservation
\* is held, and at the step that releases it the reply is already on the
\* one-shot channel (sent exactly once, or already received by the caller).
C27_ReplyBeforeRelease ==
    /\ [](\A c \in Callers :
            units[c].pc = "generate"
            => IsSome(units[c].reservation) /\ chan[c].resolutions = 0)
    /\ [][ \A c \in Callers :
             (IsSome(units[c].reservation) /\ units'[c].reservation = None)
             => /\ chan[c].state \in {"sent", "received"}
                /\ chan[c].resolutions = 1
                /\ chan'[c] = chan[c]
         ]_vars

\* C27's case: a work unit has replied and then released a reservation of at
\* least one block, and its caller has the reply.
C27_Witness ==
    \E c \in Callers :
        /\ units[c].pc = "done" /\ units[c].reservation = None
        /\ predicted_blocks[c] > 0
        /\ chan[c].resolutions = 1
        /\ pc[c] = "done" /\ result[c] = Prompts[prompt[c]]

\* C28 (exactly-once dispatch): whatever the backend and its generation result,
\* a request enters the queue only by its caller's send, enters a batch only
\* from the queue, is handed to a work unit running generate_once only from a
\* batch and only where no work unit ran for it before, and leaves the queue
\* and the batch as it moves on; it is never in two places, and a caller that
\* has its reply had its request run by one work unit.
C28_ExactlyOnceDispatch ==
    /\ [](\A c \in Callers :
            /\ Holders(c) <= 1
            /\ (pc[c] = "done" /\ chan[c].state = "received")
               => units[c].pc \in {"drop", "done"})
    /\ [][ \A c \in Callers :
             /\ (~InQueue(c) /\ InQueue(c)')
                => /\ pc[c] = "send" /\ pc'[c] = "await"
                   /\ units[c].pc = "none" /\ ~InBatch(c)
             /\ (~InBatch(c) /\ InBatch(c)') => (InQueue(c) /\ ~InQueue(c)')
             /\ (units[c].pc /= "generate" /\ units'[c].pc = "generate")
                => /\ units[c].pc = "none"
                   /\ InBatch(c) /\ ~InBatch(c)' /\ ~InQueue(c)'
                   /\ units'[c].prompt = prompt[c]
             /\ units[c].pc /= "none" => units'[c].pc /= "none"
         ]_vars

\* C28's case: on a backend whose tokenize fails a request was run once, its
\* caller has received the empty text, and nothing of the request remains in
\* the queue or in a batch.
C28_Witness ==
    \E c \in Callers :
        /\ backend = "tokenize_fails"
        /\ pc[c] = "done" /\ chan[c].state = "received" /\ result[c] = EmptyString
        /\ units[c].pc = "done"
        /\ Holders(c) = 0

\* C29 (last_batch_size): last_batch_size is 0 until a tick has drained a
\* request; a tick that drained at least one request sets it to the length of
\* its batch, which lies between 1 and the batch limit; a tick that drained
\* nothing, and every step outside the tick loop, leaves it unchanged.
C29_LastBatchSize ==
    /\ []((\A c \in Callers : units[c].pc = "none") => last_batch_size = 0)
    /\ [](last_batch_size \in 0..BATCH_MAX)
    /\ [][ IF tick_pc = "store" /\ tick_pc' = "tick" /\ batch /= <<>>
           THEN /\ last_batch_size' = Len(batch)
                /\ last_batch_size' \in 1..BATCH_MAX
           ELSE last_batch_size' = last_batch_size
         ]_vars

\* C29's case: a tick has dispatched a batch of the full size and a later tick
\* that drained nothing is about to end, last_batch_size still being the
\* former batch's length.
C29_Witness ==
    /\ tick_pc = "store" /\ batch = <<>>
    /\ last_batch_size = BATCH_MAX
    /\ \E c, d \in Callers : c /= d /\ units[c].pc /= "none" /\ units[d].pc /= "none"

\* More calls than the queue holds, each of the 4-byte prompt with max_tokens
\* 60 (2 blocks, so that all are admitted); no addition exceeds the word.
PressureInputs == { <<2, 60>> }
PressureInit == InitFor("mock", PressureInputs, NumCallers)
PressureSpec == PressureInit /\ [][NextNoOverflow]_vars /\ ReleaseFairness

\* C30 (bounded queue with back-pressure): the queue never holds more than
\* QUEUE_CAP requests; a caller whose send finds the queue full stays in its
\* send with its reservation and its reply channel intact (the request is
\* neither rejected nor dropped), a send ends only with the request in the
\* queue, and under a fair tick loop every send is eventually accepted.
C30_BackPressure ==
    /\ [](Len(queue) <= QUEUE_CAP)
    /\ [][ \A c \in Callers :
             /\ (pc[c] = "send" /\ Len(queue) = QUEUE_CAP)
                => /\ pc'[c] = "send"
                   /\ reservation'[c] = reservation[c] /\ IsSome(reservation[c])
                   /\ chan'[c] = chan[c] /\ chan[c].state = "open"
             /\ (pc[c] = "send" /\ pc'[c] /= "send")
                => pc'[c] = "await" /\ InQueue(c)' /\ chan'[c].state = "open"
         ]_vars
    /\ \A c \in Callers :
         (pc[c] = "send") ~> (pc[c] \in {"await", "done"} /\ chan[c].state /= "closed")

\* C30's case: the queue is full and a caller holding a reservation is
\* suspended in its send.
C30_Witness ==
    /\ Len(queue) = QUEUE_CAP
    /\ \E c \in Callers :
         pc[c] = "send" /\ IsSome(reservation[c]) /\ ~InQueue(c)

DefragSpec == LiveInit /\ [][DefragNext]_vars

\* C31 (used_blocks frame): used_blocks changes only in the step of a
\* successful compare_exchange of try_reserve, which adds the call's blocks, and
\* in the step that drops a Reservation, which subtracts its blocks. A failed
\* try_reserve (denied at the load, or a failed compare_exchange), defragment,
\* the prefix cache operations of enqueue, the tick loop's drain and dispatch
\* and the generation driver's reply leave it unchanged. (The snapshot reads
\* used_blocks() and capacity_blocks() are loads: stuttering steps.)
C31_UsedBlocksFrame ==
    [][ /\ used_blocks' /= used_blocks
           => \/ \E c \in Callers :
                   /\ pc[c] = "cas" /\ pc'[c] = "send" /\ used_blocks = used[c]
                   /\ reservation'[c] = Some(predicted_blocks[c])
                   /\ used_blocks' = used_blocks + predicted_blocks[c]
              \/ \E c \in Callers :
                   /\ units[c].pc = "drop" /\ units'[c].pc = "done"
                   /\ IsSome(units[c].reservation) /\ units'[c].reservation = None
                   /\ used_blocks' = used_blocks - Unwrap(units[c].reservation)
        /\ \A c \in Callers :
             (\/ pc[c] = "load" /\ pc'[c] = "done"
              \/ pc[c] = "cas" /\ pc'[c] = "load"
              \/ pc[c] \in {"idle", "is_common"} /\ pc'[c] /= pc[c]
              \/ units[c].pc = "generate" /\ units'[c].pc = "drop")
             => used_blocks' = used_blocks
        /\ (\/ tick_pc' /= tick_pc
            \/ free_list /= <<>> /\ free_list' = <<>>
            \/ counts' /= counts)
           => used_blocks' = used_blocks
      ]_vars

\* C31's case: blocks are reserved, the free list has been emptied by
\* defragment after a release, one call was denied and one work unit has
\* replied.
C31_Witness ==
    /\ used_blocks > 0 /\ free_list = <<>>
    /\ \E c \in Callers : units[c].pc = "done" /\ predicted_blocks[c] > 0
    /\ \E c \in Callers : Denied(c)
    /\ \E c \in Callers : units[c].pc = "drop" /\ IsSome(units[c].reservation)

\* The inputs that fill the pool: with the 400-byte prompt, max_tokens 220 asks
\* for all 10 blocks; with the 4-byte prompt, max_tokens 20 asks for 1 block,
\* and for none once the prefix is common (total_tokens 21 - 32 saturates at
\* 0). No addition exceeds the word.
FullInputs == { <<1, 220>>, <<2, 20>> }
FullInit == InitWith("mock", FullInputs)
FullSpec == FullInit /\ [][NextNoOverflow]_vars

\* C32 (zero-block reservation): try_reserve(0) is never refused, whatever
\* used_blocks is, also at used_blocks = capacity_blocks; its compare_exchange
\* leaves used_blocks unchanged and yields a Reservation of 0 blocks; dropping
\* that Reservation leaves used_blocks unchanged.
C32_ZeroBlockReservation ==
    /\ [](\A c \in Callers : (Predicted(c) /\ predicted_blocks[c] = 0) => ~Denied(c))
    /\ [][ \A c \in Callers :
             /\ (pc[c] = "load" /\ predicted_blocks[c] = 0 /\ pc'[c] /= "load")
                => pc'[c] = "cas"
             /\ (pc[c] = "cas" /\ predicted_blocks[c] = 0 /\ pc'[c] = "send")
                => used_blocks' = used_blocks /\ reservation'[c] = Some(0)
             /\ (units[c].reservation = Some(0) /\ units'[c].reservation = None)
                => used_blocks' = used_blocks
         ]_vars

\* C32's case: while the pool was full (used_blocks = capacity_blocks) a call
\* reserved 0 blocks, and its work unit has dropped the reservation; the pool
\* is still full.
C32_Witness ==
    /\ used_blocks = capacity_blocks
    /\ \E c \in Callers :
         /\ predicted_blocks[c] = 0 /\ Admitted(c)
         /\ units[c].pc = "done" /\ units[c].reservation = None
    /\ \E d \in Callers : Denied(d)

\* C33 (defragment): at whatever point defragment runs between reservations
\* and releases, it empties the free list and leaves used_blocks and every
\* live reservation (held by a caller, a queued or batched request or a work
\* unit) unchanged; capacity_blocks is fixed, and used_blocks stays the sum of
\* the live reservations and within capacity_blocks.
C33_DefragmentNoOp ==
    /\ [][ (free_list /= <<>> /\ free_list' = <<>>)
           => /\ used_blocks' = used_blocks
              /\ reservation' = reservation
              /\ queue' = queue /\ batch' = batch /\ units' = units
              /\ LiveBlocks' = LiveBlocks
         ]_vars
    /\ [](used_blocks = LiveBlocks /\ used_blocks <= capacity_blocks)

\* C33's case: defragment has emptied the free list after a work unit released
\* its blocks, while a caller holds a reservation between its compare_exchange
\* and its send and another request waits in the queue.
C33_Witness ==
    /\ free_list = <<>>
    /\ \E c \in Callers : units[c].pc = "done" /\ predicted_blocks[c] > 0
    /\ \E c \in Callers : pc[c] = "send" /\ IsSome(reservation[c]) /\ predicted_blocks[c] > 0
    /\ queue /= <<>>
    /\ used_blocks = LiveBlocks /\ used_blocks > 0

\* C34 (note before the capacity check): the first step of every call of
\* enqueue adds exactly one to the count of its prompt's prefix hash and
\* leaves the other counts alone, before try_reserve runs; no later step of the
\* call, the denial included, changes a count. So a call denied with
\* SERVER_BUSY stays counted, and a later call of the same prompt finds the
\* prefix common and has its total_tokens discounted.
C34_NoteBeforeAdmission ==
    /\ [][ /\ \A c \in Callers :
                (pc[c] = "idle" /\ pc'[c] /= "idle")
                => /\ counts'[PromptHash[prompt'[c]]] = counts[PromptHash[prompt'[c]]] + 1
                   /\ \A h \in Hashes :
                        h /= PromptHash[prompt'[c]] => counts'[h] = counts[h]
                   /\ used_blocks' = used_blocks /\ reservation'[c] = None
           /\ (\A c \in Callers : ~(pc[c] = "idle" /\ pc'[c] /= "idle"))
              => counts' = counts
           /\ \A c, d \in Callers :
                (/\ c /= d /\ Denied(c) /\ prompt[c] = prompt[d]
                 /\ pc[d] = "is_common" /\ pc'[d] = "load")
                => /\ is_common(counts, PromptHash[prompt[d]])
                   /\ total_tokens'[d] =
                        saturating_sub(est_prompt_tokens(prompt[d]) + max_tokens[d],
                                       PREFIX_DISCOUNT)
         ]_vars
    /\ [](\A c \in Callers : Denied(c) => counts[PromptHash[prompt[c]]] >= 1)
    /\ [](\A h \in Hashes : counts[h] = NoteCalls(h))

\* C35 (no admission while the pool is full): whenever used_blocks =
\* capacity_blocks, a call of enqueue that runs its try_reserve is denied with
\* SERVER_BUSY: its load does not pass the capacity test and no
\* compare_exchange grants it a reservation, not even one of zero blocks.
C35_FullPoolDenies ==
    [][ \A c \in Callers :
          /\ (used_blocks = capacity_blocks /\ pc[c] = "load" /\ pc'[c] /= "load")
             => pc'[c] = "done" /\ result'[c] = SERVER_BUSY
          /\ (used_blocks = capacity_blocks /\ pc[c] = "cas")
             => pc'[c] /= "send"
      ]_vars

\* Caller c's note was the first for its prompt (callers are numbered in the
\* order of their calls, which is the order of their notes).
FirstNote(c) == \A d \in Callers : d < c => prompt[d] /= prompt[c]

\* C36 (discount under concurrency): among the calls for one previously unseen
\* prompt, in every interleaving, the call whose note came first computes its
\* total_tokens without the discount and every other call with it: exactly
\* n - 1 of n calls are discounted.
C36_FirstNoteUndiscounted ==
    \A c \in Callers :
        Predicted(c)
        => IF FirstNote(c)
           THEN total_tokens[c] =
                    wrapping_add(est_prompt_tokens(prompt[c]), max_tokens[c])
           ELSE total_tokens[c] =
                    saturating_sub(wrapping_add(est_prompt_tokens(prompt[c]),
                                                max_tokens[c]), PREFIX_DISCOUNT)

CancelSpec == PressureInit /\ [][CancelNext]_vars

\* C37 (cancellation in the send): a caller in its send, suspended or not,
\* already holds the reservation of its predicted blocks, counted in
\* used_blocks, and its request is nowhere else; the step that cancels a caller
\* suspended on the full queue releases exactly that reservation and leaves the
\* queue and the batch unchanged; the cancelled request is never in the queue,
\* in a batch or in a work unit, and its caller gets no result.
C37_CancelledSend ==
    /\ [](\A c \in Callers :
            pc[c] = "send"
            => /\ reservation[c] = Some(predicted_blocks[c])
               /\ used_blocks >= predicted_blocks[c]
               /\ ~InQueue(c) /\ ~InBatch(c) /\ units[c].pc = "none")
    /\ [][ \A c \in Callers :
             (pc[c] = "send" /\ pc'[c] = "abandoned")
             => /\ Len(queue) = QUEUE_CAP
                /\ used_blocks' = used_blocks - predicted_blocks[c]
                /\ free_list' = Append(free_list, predicted_blocks[c])
                /\ reservation'[c] = None
                /\ queue' = queue /\ batch' = batch /\ units' = units
         ]_vars
    /\ [](\A c \in Callers :
            pc[c] = "abandoned"
            => /\ ~InQueue(c) /\ ~InBatch(c) /\ units[c].pc = "none"
               /\ reservation[c] = None /\ result[c] = EmptyString)
    /\ [](used_blocks = LiveBlocks)

\* C37's case: a caller holding 2 blocks was cancelled while suspended on the
\* full queue; the other requests have been served and released, and
\* used_blocks is back to 0.
C37_Witness ==
    \E c \in Callers :
        /\ pc[c] = "abandoned" /\ predicted_blocks[c] > 0
        /\ units[c].pc = "none"
        /\ \A d \in Callers \ {c} : pc[d] = "done" /\ units[d].pc = "done"
        /\ used_blocks = 0

\* More calls than the queue holds, of requests that fill the pool.
FullPressureSpec == InitFor("mock", FullInputs, NumCallers) /\ [][NextNoOverflow]_vars

\* C38 (no deadlock of the tick loop): the tick loop can always take its next
\* step: it waits neither for KV capacity, nor for a work unit, nor for a reply
\* to be taken. The drain of a non-empty queue takes at least one request (the
\* oldest ones, up to the batch limit) whatever used_blocks is and whoever is
\* suspended in a send, and the dispatch that follows hands every drained
\* request to a work unit and returns to the next tick.
C38_TickNeverBlocks ==
    /\ [](/\ tick_pc = "tick" => ENABLED TickDrain
          /\ tick_pc = "store" => ENABLED TickDispatch)
    /\ [][ /\ (tick_pc = "tick" /\ tick_pc' = "store" /\ queue /= <<>>)
              => /\ Len(batch') = Min(Len(queue), BATCH_MAX) /\ Len(batch') >= 1
                 /\ Len(queue') = Len(queue) - Len(batch')
                 /\ used_blocks' = used_blocks
           /\ (tick_pc = "store" /\ tick_pc' /= "store")
              => /\ tick_pc' = "tick" /\ batch' = <<>>
                 /\ \A i \in 1..Len(batch) : units'[batch[i].respond].pc = "generate"
         ]_vars

\* C38's case: the pool is full, a caller is suspended in its send, and the
\* tick loop has just drained a full batch from the queue that was full.
C38_Witness ==
    /\ used_blocks = capacity_blocks
    /\ tick_pc = "store" /\ Len(batch) = BATCH_MAX
    /\ Len(queue) = QUEUE_CAP - BATCH_MAX
    /\ \E c \in Callers : pc[c] = "send" /\ IsSome(reservation[c])

\* Callers whose prompts share their first 256 bytes: the 400-byte and the
\* 259-byte ASCII prompt and the prompt of exactly 256 bytes, and the two
\* prompts whose byte offset 256 is inside the same two-byte character.
PrefixInputs == { <<1, 28>>, <<5, 28>>, <<7, 28>>, <<3, 60>>, <<6, 60>> }
PrefixInit == InitWith("mock", PrefixInputs)
PrefixSpec == PrefixInit /\ [][NextNoOverflow]_vars

\* Two prompts agree on their first 256 bytes.
Agree(p, q) ==
    /\ Len(Prompts[p]) >= PREFIX_BYTES /\ Len(Prompts[q]) >= PREFIX_BYTES
    /\ SubSeq(Prompts[p], 1, PREFIX_BYTES) = SubSeq(Prompts[q], 1, PREFIX_BYTES)

\* C39 (prefix fingerprint): a prompt of at most 256 bytes is fingerprinted
\* over its whole text, and hash_prefix is a function of the text; two prompts
\* that agree on their first 256 bytes have the same fingerprint and share one
\* count: once one of them has been enqueued, an enqueue of the other gets its
\* fingerprint, finds the count at 2 or more and has its total_tokens
\* discounted as a common prefix.
C39_SharedPrefix ==
    /\ \A p \in PromptIds :
            Len(Prompts[p]) <= PREFIX_BYTES
            => /\ ~hash_prefix_panics(Prompts[p])
               /\ PromptHash[p] = DefaultHasher(Prompts[p])
    /\ \A c, d \in Callers :
            (c < d /\ pc[d] /= "idle" /\ Agree(prompt[c], prompt[d]))
            => /\ pc[c] /= "panicked" /\ pc[d] /= "panicked"
               /\ PromptHash[prompt[c]] = PromptHash[prompt[d]]
               /\ counts[PromptHash[prompt[d]]] >= 2
               /\ (Predicted(d) => Discounted(d))

\* The same statement for prompts that hash_prefix accepts.
C39_SharedPrefixAtBoundary ==
    \A c, d \in Callers :
        (/\ c < d /\ pc[d] /= "idle" /\ Agree(prompt[c], prompt[d])
         /\ ~hash_prefix_panics(Prompts[prompt[c]])
         /\ ~hash_prefix_panics(Prompts[prompt[d]]))
        => /\ pc[c] /= "panicked" /\ pc[d] /= "panicked"
           /\ PromptHash[prompt[c]] = PromptHash[prompt[d]]
           /\ counts[PromptHash[prompt[d]]] >= 2
           /\ (Predicted(d) => Discounted(d))

\* C40 as stated (queue depth after a tick): the store of a tick writes the
\* number of requests then in the queue, and writes a non-zero value only when
\* the batch drained in that tick holds exactly BATCH_MAX requests.
C40_QueueDepthOnlyAfterFullBatch ==
    [][ (tick_pc = "store" /\ tick_pc' = "tick")
        => /\ queue_depth' = Len(queue) /\ queue' = queue
           /\ (queue_depth' /= 0 => Len(batch) = BATCH_MAX)
      ]_vars

\* C40 (queue depth after a tick, amended): the drain leaves requests in the
\* queue only when the batch holds exactly BATCH_MAX requests; between the
\* drain and the store the batch is fixed and the queue changes only by a
\* caller's send appending its request; the store writes the number of
\* requests then in the queue. So the stored queue_depth is the queue's length
\* at the store, and it is non-zero only when the batch holds BATCH_MAX
\* requests or a send has completed since the drain.
C40_QueueDepthAtStore ==
    [][ /\ (tick_pc = "tick" /\ tick_pc' = "store")
           => /\ batch' \o queue' = queue /\ Len(batch') <= BATCH_MAX
              /\ (queue' /= <<>> => Len(batch') = BATCH_MAX)
              /\ queue_depth' = queue_depth
        /\ (tick_pc = "store" /\ tick_pc' = "store")
           => /\ batch' = batch /\ queue_depth' = queue_depth
              /\ \/ queue' = queue
                 \/ \E c \in Callers :
                        /\ pc[c] = "send" /\ pc'[c] = "await"
                        /\ Len(queue') = Len(queue) + 1
                        /\ SubSeq(queue', 1, Len(queue)) = queue
                        /\ queue'[Len(queue')].respond = c
        /\ (tick_pc = "store" /\ tick_pc' = "tick")
           => queue_depth' = Len(queue) /\ queue' = queue
        /\ (tick_pc' = tick_pc /\ tick_pc /= "store") => queue_depth' = queue_depth
      ]_vars

\* C40's case: the first non-empty tick has dispatched a batch of one request,
\* fewer than BATCH_MAX, and the stored queue_depth counts a request that was
\* sent after the drain and is still in the queue.
C40_Witness ==
    /\ tick_pc = "tick"
    /\ last_batch_size = 1 /\ last_batch_size < BATCH_MAX
    /\ Cardinality({c \in Callers : units[c].pc /= "none"}) = 1
    /\ queue_depth = 1 /\ Len(queue) = 1

====
